---- MODULE Spec2Model ----
(***************************************************************************)
(* A model of ParsedToPlot-Rs: the bracketed-string parser (String2Tree),  *)
(* the CoNLL token parser (String2Conll), the generic depth-first walk     *)
(* (WalkTree::walk with its six WalkActions hooks) and the components that *)
(* ride on it (Tree2String, Conll2String, Conll2Plot).                     *)
(*                                                                         *)
(* Strings are sequences of one-character strings, so that split, trim,    *)
(* count and join are computed the way the Rust code computes them.        *)
(***************************************************************************)
EXTENDS Integers, Sequences, FiniteSets, TLC

VARIABLES
    component,       \* which WalkTree implementor runs: "T2S", "C2S" or "C2P"
    input,           \* String2Tree: the constituency string handed to build
    rest,            \* String2Tree: the argument of the current recursive build call
    tree,            \* String2Tree.tree / Tree2String.tree (an id_tree Tree<String>)
    parent_node_id,  \* String2Tree.parent_node_id (None is 0)
    lines,           \* String2Conll: the input Vec<String>
    tokens,          \* String2Conll.tokens / Conll2Plot.tokens / Conll2String.tokens
    pc,              \* position of the pipeline: "build", "start", "walk", "walked", "done"
    build_result,    \* what String2Tree::build / String2Conll::build returned
    walk_result,     \* what WalkTree::walk(None, ..) returned
    stack,           \* the call stack of WalkTree::walk
    trace,           \* the hooks called so far, in order
    acc,             \* the Accumulator threaded through the walk
    output,          \* what the getter of the component returned
    failing          \* the call of the WalkTree implementor that returns Err, if any

vars == <<component, input, rest, tree, parent_node_id, lines, tokens, pc,
          build_result, walk_result, stack, trace, acc, output, failing>>

-----------------------------------------------------------------------------
(* Bounds of the model.                                                    *)

\* number of " (" separated chunks after the root chunk of a constituency string
MaxChunks == 3
\* number of tokens of a dependency sentence handed to Conll2Plot
MaxTokens == 5
\* sentences of up to this many tokens are also tried with arbitrary heads
MaxFreeTokens == 3
\* number of lines handed to String2Conll on the way to Conll2String
MaxLines == 2

-----------------------------------------------------------------------------
(* Results: Ok, Err(msg) and a panic (unwinding abort).                    *)

None == 0

Running == [kind |-> "Running", msg |-> ""]
Ok == [kind |-> "Ok", msg |-> ""]
Err(m) == [kind |-> "Err", msg |-> m]
Panic(m) == [kind |-> "Panic", msg |-> m]

-----------------------------------------------------------------------------
(* std::str operations, over sequences of characters.                      *)

RECURSIVE FindFrom(_, _, _)
FindFrom(s, pat, i) ==
    IF i + Len(pat) - 1 > Len(s) THEN 0
    ELSE IF SubSeq(s, i, i + Len(pat) - 1) = pat THEN i
    ELSE FindFrom(s, pat, i + 1)

\* str::find: index of the first occurrence of pat in s, 0 when there is none
Find(s, pat) == FindFrom(s, pat, 1)

IsWhite(c) == c \in {" ", "\t", "\n", "\r"}

RECURSIVE TrimStart(_)
TrimStart(s) == IF s # <<>> /\ IsWhite(Head(s)) THEN TrimStart(Tail(s)) ELSE s

RECURSIVE TrimEnd(_)
TrimEnd(s) ==
    IF s # <<>> /\ IsWhite(s[Len(s)]) THEN TrimEnd(SubSeq(s, 1, Len(s) - 1)) ELSE s

\* str::trim
Trim(s) == TrimEnd(TrimStart(s))

\* str::split_once: Some((left, right)) around the first occurrence of pat
SplitOnce(s, pat) ==
    LET i == Find(s, pat)
    IN  IF i = 0 THEN [found |-> FALSE, left |-> s, right |-> <<>>]
        ELSE [found |-> TRUE,
              left  |-> SubSeq(s, 1, i - 1),
              right |-> SubSeq(s, i + Len(pat), Len(s))]

\* str::matches(c).count()
RECURSIVE CountChar(_, _)
CountChar(s, c) ==
    IF s = <<>> THEN 0
    ELSE (IF Head(s) = c THEN 1 ELSE 0) + CountChar(Tail(s), c)

RECURSIVE TrimStartMatches(_, _)
TrimStartMatches(s, c) ==
    IF s # <<>> /\ Head(s) = c THEN TrimStartMatches(Tail(s), c) ELSE s

RECURSIVE TrimEndMatches(_, _)
TrimEndMatches(s, c) ==
    IF s # <<>> /\ s[Len(s)] = c
    THEN TrimEndMatches(SubSeq(s, 1, Len(s) - 1), c) ELSE s

\* str::trim_matches(c): strips c from both ends
TrimMatches(s, c) == TrimEndMatches(TrimStartMatches(s, c), c)

\* str::split(c): the pieces between the occurrences of c, empty pieces kept
RECURSIVE Split(_, _)
Split(s, c) ==
    LET i == Find(s, <<c>>)
    IN  IF i = 0 THEN <<s>>
        ELSE <<SubSeq(s, 1, i - 1)>> \o Split(SubSeq(s, i + 1, Len(s)), c)

\* [String]::join(sep)
RECURSIVE Join(_, _)
Join(v, sep) ==
    IF v = <<>> THEN <<>>
    ELSE IF Len(v) = 1 THEN v[1]
    ELSE v[1] \o sep \o Join(Tail(v), sep)

StartsWith(s, pat) == Len(s) >= Len(pat) /\ SubSeq(s, 1, Len(pat)) = pat
EndsWith(s, pat) ==
    Len(s) >= Len(pat) /\ SubSeq(s, Len(s) - Len(pat) + 1, Len(s)) = pat

-----------------------------------------------------------------------------
(* id_tree::Tree<String>: node ids are 1, 2, ... in order of insertion.    *)

EmptyTree == [root |-> None, data |-> <<>>, parent |-> <<>>, children |-> <<>>]

\* Tree::insert(node, AsRoot): a former root becomes the sole child of the new one
InsertAsRoot(t, label) ==
    LET id == Len(t.data) + 1
    IN  [root     |-> id,
         data     |-> Append(t.data, label),
         parent   |-> Append(IF t.root = None THEN t.parent
                             ELSE [t.parent EXCEPT ![t.root] = id], None),
         children |-> Append(t.children,
                             IF t.root = None THEN <<>> ELSE <<t.root>>)]

\* Tree::insert(node, UnderNode(p)): the new node becomes the last child of p
InsertUnder(t, label, p) ==
    LET id == Len(t.data) + 1
    IN  [root     |-> t.root,
         data     |-> Append(t.data, label),
         parent   |-> Append(t.parent, p),
         children |-> Append([t.children EXCEPT ![p] = Append(@, id)], <<>>)]

\* Tree::ancestor_ids(id): the parent, the grand-parent, ... up to the root
RECURSIVE AncestorIds(_, _)
AncestorIds(t, id) ==
    IF t.parent[id] = None THEN <<>>
    ELSE <<t.parent[id]>> \o AncestorIds(t, t.parent[id])

\* Tree::children_ids(id)
ChildrenIds(t, id) == t.children[id]

-----------------------------------------------------------------------------
(* String2Tree (string_2_tree.rs).                                         *)

NODE_DELIMITER == <<" ", "(">>
ROOT_DELIMITER == <<"(", "S">>
ROOT_LABEL == <<"S">>
EMPTY_TREE == <<"(", "S", ")">>
NULL_TREE == <<"(", ")">>
CLOSE_BRACKETS == ")"

\* update_parent that counts the ancestors from the wrong end of the closers:
\* it climbs one level less than n
update_parent_OneLevelShort(t, par, item_id, n) ==
    LET ancestors == AncestorIds(t, item_id)
    IN  IF n > Len(ancestors)
        THEN [parent |-> par,
              res |-> Err("inconsistent number of closers and ancestors for node id")]
        ELSE [parent |-> IF n <= 0 THEN None
                         ELSE IF n = 1 THEN ancestors[1] ELSE ancestors[n - 1],
              res |-> Running]

\* update_parent that stops at the root when the ancestors run out
update_parent_StopsAtRoot(t, par, item_id, n) ==
    LET ancestors == AncestorIds(t, item_id)
    IN  [parent |-> IF n <= 0 THEN None
                    ELSE IF n > Len(ancestors) THEN t.root ELSE ancestors[n],
         res |-> Running]

\* String2Tree::update_parent(item_id, n): the n-th ancestor of item_id becomes
\* the current parent; n = 0 leaves None; too few ancestors is an Err
update_parent(t, par, item_id, n) ==
    LET ancestors == AncestorIds(t, item_id)
    IN  IF n > Len(ancestors)
        THEN [parent |-> par,
              res |-> Err("inconsistent number of closers and ancestors for node id")]
        ELSE [parent |-> IF n <= 0 THEN None ELSE ancestors[n], res |-> Running]

\* the branch of build for a chunk that holds closing brackets (a leaf)
BuildLeaf(t, par, left, right, closers) ==
    LET split_vec == Split(TrimMatches(left, CLOSE_BRACKETS), " ")
        n == Len(split_vec)
    IN  IF n \notin 1..2
        THEN [tree |-> t, parent |-> par, rest |-> right,
              res |-> Panic("leaf input has an invalid structure")]
        ELSE
        LET upper_leaf == Trim(split_vec[1])
            t1 == InsertUnder(t, upper_leaf, par)
            child_id == Len(t1.data)
            t2 == IF n = 2 THEN InsertUnder(t1, Trim(split_vec[2]), child_id) ELSE t1
            c == IF right = <<>> THEN closers - 1 ELSE closers
            up == update_parent(t2, par, child_id, c)
        IN  [tree |-> t2, parent |-> up.parent, rest |-> right, res |-> up.res]

\* the branch of build for a chunk without closing brackets (an inner node)
BuildNode(t, par, left, right) ==
    IF right = <<>>
    THEN [tree |-> t, parent |-> par, rest |-> right,
          res |-> Panic("Did not find trailing closers")]
    ELSE LET t1 == InsertUnder(t, left, par)
         IN  [tree |-> t1, parent |-> Len(t1.data), rest |-> right, res |-> Running]

\* the chunk of the current call and what follows it
BuildLeft(inp) ==
    LET sp == SplitOnce(inp, NODE_DELIMITER)
    IN  IF sp.found THEN Trim(sp.left) ELSE Trim(inp)
BuildRight(inp) ==
    LET sp == SplitOnce(inp, NODE_DELIMITER)
    IN  IF sp.found THEN Trim(sp.right) ELSE <<>>

\* build below its match on the root forms: the chunk is a leaf or a node
BuildBelowRoot(t, par, left, right) ==
    IF par = None
    THEN [tree |-> t, parent |-> par, rest |-> right,
          res |-> Panic("The input did not start with root")]
    ELSE IF CountChar(left, CLOSE_BRACKETS) > 0
    THEN BuildLeaf(t, par, left, right, CountChar(left, CLOSE_BRACKETS))
    ELSE BuildNode(t, par, left, right)

\* build with NULL_TREE in the arm of the root forms: "()" makes a root
BuildCall_NullTreeAsRoot(inp, t, par) ==
    IF inp = <<>> THEN [tree |-> t, parent |-> par, rest |-> inp, res |-> Ok]
    ELSE IF BuildLeft(inp) \in {ROOT_DELIMITER, EMPTY_TREE, NULL_TREE}
    THEN LET t1 == InsertAsRoot(t, ROOT_LABEL)
         IN  [tree |-> t1, parent |-> t1.root, rest |-> BuildRight(inp),
              res |-> Running]
    ELSE BuildBelowRoot(t, par, BuildLeft(inp), BuildRight(inp))

\* build that takes any first opener "(L" for the root
BuildCall_AnyRootLabel(inp, t, par) ==
    IF inp = <<>> THEN [tree |-> t, parent |-> par, rest |-> inp, res |-> Ok]
    ELSE IF BuildLeft(inp) \in {ROOT_DELIMITER, EMPTY_TREE}
            \/ (par = None /\ StartsWith(BuildLeft(inp), <<"(">>)
                /\ BuildLeft(inp) # NULL_TREE)
    THEN LET t1 == InsertAsRoot(t, TrimMatches(Tail(BuildLeft(inp)), CLOSE_BRACKETS))
         IN  [tree |-> t1, parent |-> t1.root, rest |-> BuildRight(inp),
              res |-> Running]
    ELSE IF BuildLeft(inp) = NULL_TREE
    THEN [tree |-> t, parent |-> par, rest |-> BuildRight(inp),
          res |-> Err("The input tree is null and not valid")]
    ELSE BuildBelowRoot(t, par, BuildLeft(inp), BuildRight(inp))

\* build without EMPTY_TREE in the arm of the root forms
BuildCall_NoEmptyTree(inp, t, par) ==
    IF inp = <<>> THEN [tree |-> t, parent |-> par, rest |-> inp, res |-> Ok]
    ELSE IF BuildLeft(inp) = ROOT_DELIMITER
    THEN LET t1 == InsertAsRoot(t, ROOT_LABEL)
         IN  [tree |-> t1, parent |-> t1.root, rest |-> BuildRight(inp),
              res |-> Running]
    ELSE IF BuildLeft(inp) = NULL_TREE
    THEN [tree |-> t, parent |-> par, rest |-> BuildRight(inp),
          res |-> Err("The input tree is null and not valid")]
    ELSE BuildBelowRoot(t, par, BuildLeft(inp), BuildRight(inp))

\* One call of String2Tree::build on the string inp, up to its recursive call:
\* the tree and the current parent it leaves, the string it recurses on, and
\* Running when it recurses (its own result is then the recursion's result)
BuildCall(inp, t, par) ==
    IF inp = <<>> THEN [tree |-> t, parent |-> par, rest |-> inp, res |-> Ok]
    ELSE
    LET sp == SplitOnce(inp, NODE_DELIMITER)
        left == IF sp.found THEN Trim(sp.left) ELSE Trim(inp)
        right == IF sp.found THEN Trim(sp.right) ELSE <<>>
    IN  IF left \in {ROOT_DELIMITER, EMPTY_TREE}
        THEN LET t1 == InsertAsRoot(t, ROOT_LABEL)
             IN  [tree |-> t1, parent |-> t1.root, rest |-> right, res |-> Running]
        ELSE IF left = NULL_TREE
        THEN [tree |-> t, parent |-> par, rest |-> right,
              res |-> Err("The input tree is null and not valid")]
        ELSE IF par = None
        THEN [tree |-> t, parent |-> par, rest |-> right,
              res |-> Panic("The input did not start with root")]
        ELSE IF CountChar(left, CLOSE_BRACKETS) > 0
        THEN BuildLeaf(t, par, left, right, CountChar(left, CLOSE_BRACKETS))
        ELSE BuildNode(t, par, left, right)

-----------------------------------------------------------------------------
(* f32 as String2Conll uses it: str::parse::<f32> and f32::to_string.      *)
(* A value is the decimal [neg, num, scale] = (-1)^neg * num / 10^scale    *)
(* with no trailing fraction zero. Decimals of up to six significant       *)
(* digits and whole numbers up to 2^24 are distinct f32 values that print  *)
(* as themselves; whole numbers between 2^24 and 2^25 round to the nearest *)
(* even f32. The model covers texts made of a sign, digits and a point.    *)

F32_MANTISSA == 2 ^ 24

Digits == <<"0", "1", "2", "3", "4", "5", "6", "7", "8", "9">>
IsDigit(c) == \E d \in 1..10 : Digits[d] = c
DigitVal(c) == (CHOOSE d \in 1..10 : Digits[d] = c) - 1
AllDigits(s) == \A i \in 1..Len(s) : IsDigit(s[i])

RECURSIVE DigitsVal(_, _)
DigitsVal(s, accum) ==
    IF s = <<>> THEN accum ELSE DigitsVal(Tail(s), accum * 10 + DigitVal(Head(s)))

RECURSIVE Pow10(_)
Pow10(k) == IF k <= 0 THEN 1 ELSE 10 * Pow10(k - 1)

RECURSIVE Normalize(_, _, _)
Normalize(neg, num, scale) ==
    IF scale > 0 /\ num % 10 = 0 THEN Normalize(neg, num \div 10, scale - 1)
    ELSE [neg |-> neg, num |-> num, scale |-> scale]

\* round-to-nearest-even of a whole number that needs 25 bits
F32Round(v) ==
    IF v.scale = 0 /\ v.num > F32_MANTISSA /\ v.num % 2 = 1
    THEN [v EXCEPT !.num = IF (v.num + 1) % 4 = 0 THEN v.num + 1 ELSE v.num - 1]
    ELSE v

\* str::parse::<f32>(): [ok, val]
ParseF32(s) ==
    LET neg == s # <<>> /\ Head(s) = "-"
        body == IF s # <<>> /\ Head(s) \in {"+", "-"} THEN Tail(s) ELSE s
        sp == SplitOnce(body, <<".">>)
        ip == IF sp.found THEN sp.left ELSE body
        fp == IF sp.found THEN sp.right ELSE <<>>
    IN  IF AllDigits(ip) /\ AllDigits(fp) /\ Len(ip) + Len(fp) > 0
        THEN [ok |-> TRUE,
              val |-> F32Round(Normalize(neg, DigitsVal(ip \o fp, 0), Len(fp)))]
        ELSE [ok |-> FALSE, val |-> [neg |-> FALSE, num |-> 0, scale |-> 0]]

RECURSIVE NatToString(_)
NatToString(n) ==
    IF n < 10 THEN <<Digits[n + 1]>>
    ELSE NatToString(n \div 10) \o <<Digits[(n % 10) + 1]>>

RECURSIVE PadZeros(_, _)
PadZeros(s, width) == IF Len(s) >= width THEN s ELSE PadZeros(<<"0">> \o s, width)

\* f32::to_string(): the shortest decimal that parses back to the value
F32ToString(v) ==
    (IF v.neg THEN <<"-">> ELSE <<>>)
    \o NatToString(v.num \div Pow10(v.scale))
    \o (IF v.scale = 0 THEN <<>>
        ELSE <<".">> \o PadZeros(NatToString(v.num % Pow10(v.scale)), v.scale))

\* the value times 10^k as a signed integer (k at least the value's scale)
Scaled(v, k) == (IF v.neg THEN -1 ELSE 1) * v.num * Pow10(k - v.scale)
MaxScale(a, b) == IF a.scale > b.scale THEN a.scale ELSE b.scale

F32Eq(a, b) == Scaled(a, MaxScale(a, b)) = Scaled(b, MaxScale(a, b))
F32Lt(a, b) == Scaled(a, MaxScale(a, b)) < Scaled(b, MaxScale(a, b))

\* `x as usize` of the float x / 10^k: truncation, negatives saturate to 0
TruncUsize(x, k) == IF x < 0 THEN 0 ELSE x \div Pow10(k)
AsUsize(v) == TruncUsize(Scaled(v, v.scale), v.scale)
\* (v + d) as usize for a whole number d
AsUsizePlus(v, d) == TruncUsize(Scaled(v, v.scale) + d * Pow10(v.scale), v.scale)

Abs(x) == IF x < 0 THEN -x ELSE x
\* (a - b).abs() as usize
AbsDiffUsize(a, b) ==
    TruncUsize(Abs(Scaled(a, MaxScale(a, b)) - Scaled(b, MaxScale(a, b))),
               MaxScale(a, b))

-----------------------------------------------------------------------------
(* String2Conll and Token (string_2_conll.rs).                             *)

CONLL_SIZE == 10
TAB == "\t"

\* Token::new that asserts input.len() >= CONLL_SIZE and leaves the last
\* assert! out: an eleventh field is dropped
TokenNew_AtLeastTen(fields) ==
    IF Len(fields) < CONLL_SIZE
    THEN [res |-> Panic("input line does not satisfy Token requirments")]
    ELSE IF ~ParseF32(fields[1]).ok \/ ~ParseF32(fields[7]).ok
    THEN [res |-> Panic("unwrap on ParseFloatError")]
    ELSE [res |-> Ok,
          token |-> [id     |-> ParseF32(fields[1]).val,
                     form   |-> fields[2],
                     lemma  |-> fields[3],
                     pos    |-> fields[4],
                     xpos   |-> fields[5],
                     feats  |-> fields[6],
                     head   |-> ParseF32(fields[7]).val,
                     deprel |-> fields[8],
                     deps   |-> fields[9],
                     misc   |-> fields[10]]]

\* Token::new(input): [ok, token]; a wrong field count or an unparsable id or
\* head makes the assert! / unwrap() panic
TokenNew(fields) ==
    IF Len(fields) # CONLL_SIZE
    THEN [res |-> Panic("input line does not satisfy Token requirments")]
    ELSE IF ~ParseF32(fields[1]).ok \/ ~ParseF32(fields[7]).ok
    THEN [res |-> Panic("unwrap on ParseFloatError")]
    ELSE [res |-> Ok,
          token |-> [id     |-> ParseF32(fields[1]).val,
                     form   |-> fields[2],
                     lemma  |-> fields[3],
                     pos    |-> fields[4],
                     xpos   |-> fields[5],
                     feats  |-> fields[6],
                     head   |-> ParseF32(fields[7]).val,
                     deprel |-> fields[8],
                     deps   |-> fields[9],
                     misc   |-> fields[10]]]

\* String2Conll::build(input): every line split on tab and turned into a Token,
\* pushed onto toks in order; the first bad line panics
RECURSIVE String2ConllBuild(_, _)
String2ConllBuild(inp, toks) ==
    IF inp = <<>> THEN [res |-> Ok, tokens |-> toks]
    ELSE LET made == TokenNew(Split(Head(inp), TAB))
         IN  IF made.res.kind # "Ok" THEN [res |-> made.res, tokens |-> toks]
             ELSE String2ConllBuild(Tail(inp), Append(toks, made.token))

\* the line Conll2String::init_walk makes of a token
TokenString(token) ==
    Join(<<F32ToString(token.id), token.form, token.lemma, token.pos, token.xpos,
           token.feats, F32ToString(token.head), token.deprel, token.deps,
           token.misc>>, <<TAB>>)

-----------------------------------------------------------------------------
(* Elements and structures of the walk (generic_enums.rs and the WalkTree  *)
(* implementations). An Element is a reference: NID(&NodeId) is the node   *)
(* id, TID(&Token) is the position of the token in tokens.                 *)

\* <[T]>::sort_by(|x, y| x.1.cmp(&y.1)): a stable sort, ascending in the distance
RECURSIVE StableInsert(_, _)
StableInsert(sorted, x) ==
    IF sorted = <<>> THEN <<x>>
    ELSE IF x.distance < Head(sorted).distance THEN <<x>> \o sorted
    ELSE <<Head(sorted)>> \o StableInsert(Tail(sorted), x)

\* a sort that puts an element before the elements of the same distance
RECURSIVE InsertBeforeEqual(_, _)
InsertBeforeEqual(sorted, x) ==
    IF sorted = <<>> THEN <<x>>
    ELSE IF x.distance <= Head(sorted).distance THEN <<x>> \o sorted
    ELSE <<Head(sorted)>> \o InsertBeforeEqual(Tail(sorted), x)

RECURSIVE SortByDistance_EqualsSwapped(_)
SortByDistance_EqualsSwapped(v) ==
    IF v = <<>> THEN <<>>
    ELSE InsertBeforeEqual(SortByDistance_EqualsSwapped(SubSeq(v, 1, Len(v) - 1)),
                           v[Len(v)])

RECURSIVE SortByDistance(_)
SortByDistance(v) ==
    IF v = <<>> THEN <<>>
    ELSE StableInsert(SortByDistance(SubSeq(v, 1, Len(v) - 1)), v[Len(v)])

\* Conll2Plot::get_root_element's scan: the ids of the tokens with id == head,
\* in sequence order
RECURSIVE RootScan(_, _)
RootScan(toks, i) ==
    IF i > Len(toks) THEN <<>>
    ELSE (IF F32Eq(toks[i].id, toks[i].head) THEN <<toks[i].id>> ELSE <<>>)
         \o RootScan(toks, i + 1)

\* Conll2Plot::get_children_ids' scan: (token_id, distance) of every token
\* whose head is root_token_id, itself excluded, in sequence order
RECURSIVE ChildScan(_, _, _)
ChildScan(toks, root_token_id, i) ==
    IF i > Len(toks) THEN <<>>
    ELSE (IF F32Eq(toks[i].head, root_token_id) /\ ~F32Eq(toks[i].id, root_token_id)
          THEN <<[token_id |-> toks[i].id,
                  distance |-> AbsDiffUsize(root_token_id, toks[i].id)]>>
          ELSE <<>>)
         \o ChildScan(toks, root_token_id, i + 1)

\* get_root_element that keeps the first root it finds instead of refusing a
\* second one
Conll2PlotRoot_FirstRoot(toks) ==
    LET roots == RootScan(toks, 1)
    IN  IF Len(roots) = 0
        THEN [res |-> Panic("assertion failed: root_id.is_some()"), el |-> None]
        ELSE IF AsUsize(roots[1]) >= Len(toks)
        THEN [res |-> Panic("index out of bounds"), el |-> None]
        ELSE [res |-> Ok, el |-> AsUsize(roots[1]) + 1]

\* Conll2Plot::get_root_element: [res, el]
Conll2PlotRoot(toks) ==
    LET roots == RootScan(toks, 1)
    IN  IF Len(roots) > 1
        THEN [res |-> Panic("not supporting more than one root"), el |-> None]
        ELSE IF Len(roots) = 0
        THEN [res |-> Panic("assertion failed: root_id.is_some()"), el |-> None]
        ELSE IF AsUsize(roots[1]) >= Len(toks)
        THEN [res |-> Panic("index out of bounds"), el |-> None]
        ELSE [res |-> Ok, el |-> AsUsize(roots[1]) + 1]

\* get_children_ids that finds the children to the left of the token only
Conll2PlotChildren_LeftOnly(toks, element_id) ==
    LET root_children_ids ==
            SortByDistance(SelectSeq(ChildScan(toks, toks[element_id].id, 1),
                LAMBDA c : F32Lt(c.token_id, toks[element_id].id)))
    IN  [res |-> Ok,
         els |-> [k \in 1..Len(root_children_ids) |->
                     AsUsize(root_children_ids[k].token_id) + 1]]

\* get_children_ids without the test token_id != root_token_id: the root is its
\* own child
Conll2PlotChildren_SelfIncluded(toks, element_id) ==
    LET root_children_ids ==
            SortByDistance(ChildScan(toks, toks[element_id].id, 1))
        own == IF F32Eq(toks[element_id].head, toks[element_id].id)
               THEN <<element_id>> ELSE <<>>
    IN  [res |-> Ok,
         els |-> own \o [k \in 1..Len(root_children_ids) |->
                            AsUsize(root_children_ids[k].token_id) + 1]]

\* Conll2Plot::get_children_ids: [res, els]
Conll2PlotChildren(toks, element_id) ==
    LET root_children_ids == SortByDistance(ChildScan(toks, toks[element_id].id, 1))
    IN  IF \E k \in 1..Len(root_children_ids) :
               AsUsize(root_children_ids[k].token_id) >= Len(toks)
        THEN [res |-> Panic("index out of bounds"), els |-> <<>>]
        ELSE [res |-> Ok,
              els |-> [k \in 1..Len(root_children_ids) |->
                          AsUsize(root_children_ids[k].token_id) + 1]]

\* WalkTree::get_root_element of the component: [res, el]
get_root_element(comp) ==
    IF comp = "T2S"
    THEN IF tree.root = None THEN [res |-> Err("tree is empty"), el |-> None]
         ELSE [res |-> Ok, el |-> tree.root]
    ELSE IF comp = "C2S"
    THEN IF tokens = <<>> THEN [res |-> Err("conll is empty"), el |-> None]
         ELSE [res |-> Ok, el |-> 1]
    ELSE Conll2PlotRoot(tokens)

\* WalkTree::get_children_ids of the component: [res, els]
get_children_ids(comp, element_id) ==
    IF comp = "T2S" THEN [res |-> Ok, els |-> ChildrenIds(tree, element_id)]
    ELSE IF comp = "C2S" THEN [res |-> Ok, els |-> <<>>]
    ELSE Conll2PlotChildren(tokens, element_id)

-----------------------------------------------------------------------------
(* Conll2Plot::extract (conll_2_plot.rs). walk_args[k] of the code is      *)
(* walk_args[k + 1] here, and slot [j] is [j + 1].                         *)

RECURSIVE SeqMax(_)
SeqMax(v) ==
    IF Len(v) = 1 THEN v[1]
    ELSE LET m == SeqMax(Tail(v)) IN IF v[1] > m THEN v[1] ELSE m

\* walk_args[start..=end].concat()
RECURSIVE ConcatSlots(_, _, _)
ConcatSlots(walk_args, start, end) ==
    IF start > end THEN <<>>
    ELSE walk_args[start + 1] \o ConcatSlots(walk_args, start + 1, end)

\* extract that reads both slots of the two endpoints as well, as if they lay
\* between them
ExtractHeight_ClosedInterval(token_id, token_head, walk_args) ==
    IF F32Eq(token_id, token_head)
    THEN [res |-> Ok, height |-> -1, walk_args |-> walk_args]
    ELSE
    LET index == IF F32Lt(token_id, token_head) THEN 0 ELSE 1
        lo == AsUsize(IF index = 0 THEN token_id ELSE token_head)
        hi == AsUsize(IF index = 0 THEN token_head ELSE token_id)
        height == 1 + SeqMax(ConcatSlots(walk_args, lo, hi))
        wa1 == [walk_args EXCEPT ![AsUsize(token_id) + 1][(1 - index) + 1] = height]
    IN  [res |-> Ok, height |-> height,
         walk_args |-> [wa1 EXCEPT ![AsUsize(token_head) + 1][index + 1] = height]]

\* the height of the token's arc and the slots after the update: [res, height, walk_args]
ExtractHeight(token_id, token_head, walk_args) ==
    IF F32Eq(token_id, token_head)
    THEN [res |-> Ok, height |-> -1, walk_args |-> walk_args]
    ELSE
    LET index == IF F32Lt(token_id, token_head) THEN 0 ELSE 1
        start == AsUsizePlus(IF index = 0 THEN token_id ELSE token_head, 1)
        end   == AsUsizePlus(IF index = 0 THEN token_head ELSE token_id, -1)
        i_id   == AsUsize(token_id)
        i_head == AsUsize(token_head)
    IN  IF (start <= end /\ end >= Len(walk_args))
           \/ i_id >= Len(walk_args) \/ i_head >= Len(walk_args)
        THEN [res |-> Panic("index out of bounds"), height |-> 0,
              walk_args |-> walk_args]
        ELSE
        LET potential_heights ==
                (IF start <= end THEN ConcatSlots(walk_args, start, end) ELSE <<>>)
                \o <<walk_args[i_id + 1][(1 - index) + 1],
                     walk_args[i_head + 1][index + 1]>>
            height == 1 + SeqMax(potential_heights)
            wa1 == [walk_args EXCEPT ![i_id + 1][(1 - index) + 1] = height]
        IN  [res |-> Ok, height |-> height,
             walk_args |-> [wa1 EXCEPT ![i_head + 1][index + 1] = height]]

\* Conll2Plot::extract(token, walk_data): [res, data, walk_args]
extract(token, walk_data) ==
    LET h == ExtractHeight(token.id, token.head, walk_data.walk_args)
    IN  [res |-> h.res,
         data |-> [start |-> token.head, end |-> token.id, deprel |-> token.deprel,
                   form |-> token.form, pos |-> token.pos, height |-> h.height],
         walk_args |-> h.walk_args]

-----------------------------------------------------------------------------
(* Tree2String::get_constituency (tree_2_string.rs).                       *)

OPEN_BRACKET == <<"(">>
CLOSE_BRACKET == <<")">>

\* the closure of get_constituency's map: a piece "(x)..." loses its first
\* "(" and its first ")"
InversePiece(x) ==
    IF StartsWith(x, OPEN_BRACKET) /\ EndsWith(x, CLOSE_BRACKET)
    THEN LET lr == SplitOnce(x, CLOSE_BRACKET)
         IN  SplitOnce(lr.left, OPEN_BRACKET).right \o lr.right
    ELSE x

\* get_constituency with the inverse flag ignored
get_constituency_IgnoresInverse(constituency, inverse) == constituency

get_constituency(constituency, inverse) ==
    IF inverse
    THEN LET pieces == Split(constituency, " ")
         IN  Join([k \in 1..Len(pieces) |-> InversePiece(pieces[k])], <<" ">>)
    ELSE constituency

-----------------------------------------------------------------------------
(* The WalkActions hooks of Tree2String, Conll2String and Conll2Plot.      *)
(* Each returns [res, acc]: its Result and the accumulator it leaves.      *)

Y_SHIFT == 2

\* the Accumulator that Structure2PlotBuilder::build of the component creates
NewAccumulator(comp) ==
    IF comp = "T2S" THEN [tag |-> "T2S", v |-> <<>>]
    ELSE IF comp = "C2S" THEN [tag |-> "C2S", v |-> <<>>]
    ELSE [tag |-> "WD",
          v |-> [conll_plot_data |-> <<>>,
                 walk_args |-> [k \in 1..Len(tokens) |-> <<0, 0>>]]]

Sep(data_str) == IF data_str = <<>> THEN <<>> ELSE <<" ">>

init_walk(comp, element_id, data) ==
    IF comp = "C2S"
    THEN [res |-> Ok,
          acc |-> [data EXCEPT !.v = @ \o [k \in 1..Len(tokens) |->
                                              TokenString(tokens[k])]]]
    ELSE [res |-> Ok, acc |-> data]

finish_trajectory(comp, element_id, data) ==
    IF comp = "T2S"
    THEN [res |-> Ok,
          acc |-> [data EXCEPT !.v = @ \o Sep(@) \o OPEN_BRACKET
                                       \o tree.data[element_id] \o CLOSE_BRACKET]]
    ELSE [res |-> Ok, acc |-> data]

on_node(comp, element_id, data) ==
    IF comp = "T2S"
    THEN [res |-> Ok,
          acc |-> [data EXCEPT !.v = @ \o Sep(@) \o OPEN_BRACKET
                                       \o tree.data[element_id]]]
    ELSE [res |-> Ok, acc |-> data]

on_child(comp, child_element_id, data) == [res |-> Ok, acc |-> data]

post_walk_update(comp, element_id, data) ==
    IF comp = "C2P"
    THEN LET this_plot_data == extract(tokens[element_id], data.v)
         IN  IF this_plot_data.res.kind # "Ok"
             THEN [res |-> this_plot_data.res, acc |-> data]
             ELSE [res |-> Ok,
                   acc |-> [data EXCEPT
                       !.v = [conll_plot_data |->
                                  Append(@.conll_plot_data, this_plot_data.data),
                              walk_args |-> this_plot_data.walk_args]]]
    ELSE [res |-> Ok, acc |-> data]

finish_recursion(comp, data) ==
    IF comp = "T2S"
    THEN [res |-> Ok, acc |-> [data EXCEPT !.v = @ \o CLOSE_BRACKET]]
    ELSE [res |-> Ok, acc |-> data]

-----------------------------------------------------------------------------
(* WalkTree::walk (generic_traits.rs), one action per stretch of the code  *)
(* between two recursive calls. A frame of stack is one call of            *)
(* walk(Some(el), ..): pos is "call" before its first statement, "loop" at *)
(* the head of its for loop and "wait" while its recursive call runs. The  *)
(* bottom frame (el = None) is the call walk(None, ..).                    *)
(* trace records every hook call: the hook, the element handed to it, and  *)
(* `at`, the element of the walk call that makes it (None for walk(None)). *)

Event(hook, el, at) == [hook |-> hook, el |-> el, at |-> at]
Frame(el, children, idx, pos) ==
    [el |-> el, children |-> children, idx |-> idx, pos |-> pos]
Top == stack[Len(stack)]
Pop(stk) == SubSeq(stk, 1, Len(stk) - 1)
SetTop(stk, f) == [stk EXCEPT ![Len(stk)] = f]

\* Every method of WalkActions and WalkTree returns Result<_, Box<dyn Error>>.
\* The components of the repository return Err from their conversions
\* (TryFrom of the Accumulator or the Element) and from their id_tree lookups;
\* `failing` names the one call, [hook, el], whose conversion or lookup fails
\* (finish_recursion takes no element: el is the element whose walk calls it).
NoFailure == [hook |-> "none", el |-> None]
FailureMsg == "could not convert"

Failed(call, el) == failing = [hook |-> call, el |-> el]

\* what the call returns: r, or Err with whatever r holds left as it was
Answer(call, el, r) ==
    IF Failed(call, el) THEN [r EXCEPT !.res = Err(FailureMsg)] ELSE r

\* the element a hook call is about
Subject(ev) == IF ev.hook = "finish_recursion" THEN ev.at ELSE ev.el

\* Hooked with `let _ =` for `?`: what the hook returns is dropped and the
\* walk goes on
Hooked_SwallowsError(h, ev, stk, nextpc) ==
    /\ trace' = Append(trace, ev)
    /\ acc' = h.acc
    /\ stack' = stk
    /\ pc' = nextpc
    /\ walk_result' = IF nextpc = "walked" THEN Ok ELSE walk_result

\* a hook was called as event ev and returned h: on Ok the walk goes on with the
\* stack stk, at pipeline position nextpc; otherwise `?` returns the error all
\* the way up (a panic unwinds)
Hooked(h, ev, stk, nextpc) ==
    LET r == Answer(ev.hook, Subject(ev), h)
    IN  /\ trace' = Append(trace, ev)
        /\ acc' = r.acc
        /\ IF r.res.kind = "Ok"
           THEN /\ stack' = stk
                /\ pc' = nextpc
                /\ walk_result' = IF nextpc = "walked" THEN Ok ELSE walk_result
           ELSE /\ stack' = stack
                /\ pc' = "done"
                /\ walk_result' = r.res

UnchangedStructure ==
    UNCHANGED <<component, input, rest, tree, parent_node_id, lines, tokens,
                build_result, output, failing>>

\* Structure2PlotBuilder::build up to the first recursive call of walk(None, ..):
\* the accumulator is created, the root fetched and init_walk called
WalkStart ==
    /\ pc = "start"
    /\ LET root == Answer("get_root_element", None, get_root_element(component))
       IN  IF root.res.kind # "Ok"
           THEN /\ walk_result' = root.res
                /\ pc' = "done"
                /\ acc' = NewAccumulator(component)
                /\ UNCHANGED <<stack, trace>>
           ELSE Hooked(init_walk(component, root.el, NewAccumulator(component)),
                       Event("init_walk", root.el, None),
                       <<Frame(None, <<root.el>>, 1, "wait"),
                         Frame(root.el, <<>>, 0, "call")>>,
                       "walk")
    /\ UnchangedStructure

\* walk(Some(el), ..) that loops over the children from the last to the first
WalkEnter_ReversedChildren ==
    /\ pc = "walk"
    /\ Top.pos = "call"
    /\ LET children_ids == Answer("get_children_ids", Top.el,
                               get_children_ids(component, Top.el))
           reversed == [k \in 1..Len(children_ids.els) |->
                           children_ids.els[Len(children_ids.els) + 1 - k]]
       IN  IF children_ids.res.kind # "Ok"
           THEN /\ walk_result' = children_ids.res
                /\ pc' = "done"
                /\ UNCHANGED <<stack, trace, acc>>
           ELSE IF children_ids.els = <<>>
           THEN Hooked(finish_trajectory(component, Top.el, acc),
                       Event("finish_trajectory", Top.el, Top.el),
                       Pop(stack), "walk")
           ELSE Hooked(on_node(component, Top.el, acc),
                       Event("on_node", Top.el, Top.el),
                       SetTop(stack, Frame(Top.el, reversed, 1, "loop")),
                       "walk")
    /\ UnchangedStructure

\* walk(Some(el), ..) that treats a leaf as a node: on_node, an empty loop
WalkEnter_LeafAsNode ==
    /\ pc = "walk"
    /\ Top.pos = "call"
    /\ LET children_ids == Answer("get_children_ids", Top.el,
                               get_children_ids(component, Top.el))
       IN  IF children_ids.res.kind # "Ok"
           THEN /\ walk_result' = children_ids.res
                /\ pc' = "done"
                /\ UNCHANGED <<stack, trace, acc>>
           ELSE Hooked(on_node(component, Top.el, acc),
                       Event("on_node", Top.el, Top.el),
                       SetTop(stack, Frame(Top.el, children_ids.els, 1, "loop")),
                       "walk")
    /\ UnchangedStructure

\* walk(Some(el), ..) from its first statement: the children are fetched; a leaf
\* gets finish_trajectory and the call returns, a node gets on_node and the
\* loop over its children starts
WalkEnter ==
    /\ pc = "walk"
    /\ Top.pos = "call"
    /\ LET children_ids == Answer("get_children_ids", Top.el,
                               get_children_ids(component, Top.el))
       IN  IF children_ids.res.kind # "Ok"
           THEN /\ walk_result' = children_ids.res
                /\ pc' = "done"
                /\ UNCHANGED <<stack, trace, acc>>
           ELSE IF children_ids.els = <<>>
           THEN Hooked(finish_trajectory(component, Top.el, acc),
                       Event("finish_trajectory", Top.el, Top.el),
                       Pop(stack), "walk")
           ELSE Hooked(on_node(component, Top.el, acc),
                       Event("on_node", Top.el, Top.el),
                       SetTop(stack, Frame(Top.el, children_ids.els, 1, "loop")),
                       "walk")
    /\ UnchangedStructure

\* the head of the for loop with a child left: on_child, then the recursive call
WalkChild ==
    /\ pc = "walk"
    /\ Top.pos = "loop"
    /\ Top.idx <= Len(Top.children)
    /\ LET child_element_id == Top.children[Top.idx]
       IN  Hooked(on_child(component, child_element_id, acc),
                  Event("on_child", child_element_id, Top.el),
                  Append(SetTop(stack, [Top EXCEPT !.pos = "wait"]),
                         Frame(child_element_id, <<>>, 0, "call")),
                  "walk")
    /\ UnchangedStructure

\* the loop moving to the next child without post_walk_update
WalkReturn_NoPostUpdate ==
    /\ pc = "walk"
    /\ Top.pos = "wait"
    /\ Top.el # None
    /\ stack' = SetTop(stack, [Top EXCEPT !.idx = @ + 1, !.pos = "loop"])
    /\ UNCHANGED <<trace, acc, pc, walk_result>>
    /\ UnchangedStructure

\* the recursive call on a child returned Ok: post_walk_update of that child,
\* and the loop moves to the next child
WalkReturn ==
    /\ pc = "walk"
    /\ Top.pos = "wait"
    /\ Top.el # None
    /\ Hooked(post_walk_update(component, Top.children[Top.idx], acc),
              Event("post_walk_update", Top.children[Top.idx], Top.el),
              SetTop(stack, [Top EXCEPT !.idx = @ + 1, !.pos = "loop"]),
              "walk")
    /\ UnchangedStructure

\* the for loop is over: finish_recursion, and the call returns Ok
WalkFinish ==
    /\ pc = "walk"
    /\ Top.pos = "loop"
    /\ Top.idx > Len(Top.children)
    /\ Hooked(finish_recursion(component, acc),
              Event("finish_recursion", None, Top.el),
              Pop(stack), "walk")
    /\ UnchangedStructure

\* walk(None, ..) returning without post_walk_update of the root
WalkEnd_NoRootUpdate ==
    /\ pc = "walk"
    /\ Top.pos = "wait"
    /\ Top.el = None
    /\ stack' = <<>>
    /\ pc' = "walked"
    /\ walk_result' = Ok
    /\ UNCHANGED <<trace, acc>>
    /\ UnchangedStructure

\* walk(None, ..) after its recursive call on the root returned Ok:
\* post_walk_update of the root, and walk returns Ok
WalkEnd ==
    /\ pc = "walk"
    /\ Top.pos = "wait"
    /\ Top.el = None
    /\ Hooked(post_walk_update(component, Top.children[1], acc),
              Event("post_walk_update", Top.children[1], None),
              <<>>, "walked")
    /\ UnchangedStructure

-----------------------------------------------------------------------------
(* The inputs tried.                                                       *)

Labels == {"a", "b"}

RECURSIVE Closers(_)
Closers(c) == IF c <= 0 THEN <<>> ELSE <<")">> \o Closers(c - 1)

\* the chunks that may follow " (" when depth brackets are open: an inner node
\* "a", a single leaf "a)..", a double leaf "a b)..", with one closer too many
\* at most; each with the number of brackets left open after it
Bodies(depth) ==
    {[text |-> <<l>>, depth |-> depth + 1] : l \in Labels}
    \cup {[text |-> <<l>> \o Closers(c), depth |-> depth + 1 - c] :
             l \in Labels, c \in 1..(depth + 2)}
    \cup {[text |-> <<"a", " ", "b">> \o Closers(c), depth |-> depth + 1 - c] :
             c \in 1..(depth + 2)}

\* the continuations of a constituency string with depth brackets open, of at
\* most k chunks
RECURSIVE GenRest(_, _)
GenRest(depth, k) ==
    {<<>>} \cup
    (IF k = 0 \/ depth < 0 THEN {}
     ELSE UNION {{NODE_DELIMITER \o b.text \o r : r \in GenRest(b.depth, k - 1)} :
                    b \in Bodies(depth)})

\* first chunks other than the root delimiter
OtherFirst == {EMPTY_TREE, NULL_TREE, <<"(", "a">>, <<"(", "a", ")">>, <<"S">>}

TreeInputs ==
    {ROOT_DELIMITER \o r : r \in GenRest(1, MaxChunks)}
    \cup {f \o r : f \in OtherFirst, r \in GenRest(1, 1)}
    \cup {<<>>}

\* a CoNLL line of ten tab separated fields
Line(id_text, form, pos, head_text, deprel) ==
    Join(<<id_text, form, <<"_">>, pos, <<"_">>, <<"_">>, head_text, deprel,
           <<"_">>, <<"_">>>>, <<TAB>>)

\* the sentence of n tokens with ids 0 .. n-1 and the heads h[1] .. h[n]
Sentence(n, h) ==
    [k \in 1..n |-> Line(NatToString(k - 1), <<"w">>, <<"p">>, NatToString(h[k]),
                         <<"d">>)]

\* token k reaches a root (a token that is its own head) in at most fuel steps
RECURSIVE ReachesRoot(_, _, _)
ReachesRoot(h, k, fuel) ==
    \/ h[k] = k - 1
    \/ fuel > 0 /\ ReachesRoot(h, h[k] + 1, fuel - 1)

\* head vectors of dependency trees: one root, every token under it
TreeHeads(n) ==
    {h \in [1..n -> 0..(n - 1)] :
        /\ Cardinality({k \in 1..n : h[k] = k - 1}) = 1
        /\ \A k \in 1..n : ReachesRoot(h, k, n)}

HeadVectors(n) ==
    IF n <= MaxFreeTokens THEN [1..n -> 0..(n - 1)] ELSE TreeHeads(n)

PlotInputs == UNION {{Sentence(n, h) : h \in HeadVectors(n)} : n \in 0..MaxTokens}

\* numerals as they may stand in the id and head fields of a file
NumeralTexts ==
    {<<"0">>, <<"1">>, <<"1", "2">>, <<"1", ".", "5">>, <<"-", "1">>,
     <<"0", "1">>, <<"+", "1">>, <<"1", ".", "0">>, <<"1", ".">>, <<".", "5">>,
     <<"1", "6", "7", "7", "7", "2", "1", "7">>, <<"x">>}

TextLines ==
    {Line(t, <<"w">>, <<"p">>, <<"0">>, <<"d">>) : t \in NumeralTexts}
    \cup {Line(<<"0">>, <<"w">>, <<"p">>, t, <<"d">>) : t \in NumeralTexts}
    \cup {Join(<<<<"0">>, <<"w">>, <<"_">>, <<"p">>, <<"_">>, <<"_">>, <<"0">>,
                 <<"d">>, <<"_">>>>, <<TAB>>)}
    \cup {Line(<<"0">>, <<"w">>, <<"p">>, <<"0">>, <<"d">>) \o <<TAB, "_">>}

RECURSIVE SeqsUpTo(_, _)
SeqsUpTo(S, k) ==
    IF k = 0 THEN {<<>>}
    ELSE {<<>>} \cup {<<x>> \o r : x \in S, r \in SeqsUpTo(S, k - 1)}

StringInputs == SeqsUpTo(TextLines, MaxLines)

-----------------------------------------------------------------------------
(* The pipelines: String2Tree -> Tree2String -> get_constituency, and      *)
(* String2Conll -> Conll2Plot or Conll2String -> get_conll, as the tests   *)
(* and lib.rs chain them (every build is unwrapped).                       *)

NoOutput == [some |-> FALSE]

InitCommon ==
    /\ rest = input
    /\ tree = EmptyTree
    /\ parent_node_id = None
    /\ tokens = <<>>
    /\ pc = "build"
    /\ build_result = Running
    /\ walk_result = Running
    /\ stack = <<>>
    /\ trace = <<>>
    /\ acc = [tag |-> "None", v |-> <<>>]
    /\ output = NoOutput

InitTree ==
    /\ component = "T2S"
    /\ input \in TreeInputs
    /\ lines = <<>>
    /\ failing = NoFailure
    /\ InitCommon

InitConll ==
    /\ \/ component = "C2P" /\ lines \in PlotInputs
       \/ component = "C2S" /\ lines \in StringInputs
    /\ input = <<>>
    /\ failing = NoFailure
    /\ InitCommon

\* one call of String2Tree::build; the call that gets the empty string returns
\* Ok through all its callers, a failing call ends the pipeline
Build ==
    /\ pc = "build"
    /\ component = "T2S"
    /\ LET r == BuildCall(rest, tree, parent_node_id)
       IN  /\ tree' = r.tree
           /\ parent_node_id' = r.parent
           /\ rest' = IF r.res.kind = "Running" THEN r.rest ELSE rest
           /\ build_result' = r.res
           /\ pc' = IF r.res.kind = "Running" THEN "build"
                    ELSE IF r.res.kind = "Ok" THEN "start" ELSE "done"
    /\ UNCHANGED <<component, input, lines, tokens, walk_result, stack, trace,
                   acc, output, failing>>

\* String2Conll::build on the lines
C2Build ==
    /\ pc = "build"
    /\ component \in {"C2P", "C2S"}
    /\ LET r == String2ConllBuild(lines, tokens)
       IN  /\ tokens' = r.tokens
           /\ build_result' = r.res
           /\ pc' = IF r.res.kind = "Ok" THEN "start" ELSE "done"
    /\ UNCHANGED <<component, input, rest, tree, parent_node_id, lines,
                   walk_result, stack, trace, acc, output, failing>>

UnchangedButOutput ==
    UNCHANGED <<component, input, rest, tree, parent_node_id, lines, tokens,
                build_result, walk_result, stack, trace, acc, failing>>

\* Tree2String::build after the walk stores the string; get_constituency(inverse)
T2SGet ==
    /\ pc = "walked"
    /\ component = "T2S"
    /\ \E inverse \in BOOLEAN :
          output' = [some |-> TRUE, inverse |-> inverse, prediction |-> acc.v,
                     constituency |-> get_constituency(acc.v, inverse)]
    /\ pc' = "done"
    /\ UnchangedButOutput

\* Conll2String::build after the walk stores the lines; get_conll
C2SGet ==
    /\ pc = "walked"
    /\ component = "C2S"
    /\ output' = [some |-> TRUE, conll |-> acc.v]
    /\ pc' = "done"
    /\ UnchangedButOutput

\* Conll2Plot::build after the walk: the height of the figure from the slots,
\* and the plot data handed to plot
C2PDone ==
    /\ pc = "walked"
    /\ component = "C2P"
    /\ output' = [some |-> TRUE,
                  built_height |-> Y_SHIFT
                      + SeqMax(ConcatSlots(acc.v.walk_args, 0, Len(tokens) - 1)),
                  conll_plot_data |-> acc.v.conll_plot_data]
    /\ pc' = "done"
    /\ UnchangedButOutput

Walk == WalkStart \/ WalkEnter \/ WalkChild \/ WalkReturn \/ WalkFinish \/ WalkEnd

NextTree == Build \/ Walk \/ T2SGet
NextConll == C2Build \/ Walk \/ C2SGet \/ C2PDone

SpecTree == InitTree /\ [][NextTree]_vars
SpecConll == InitConll /\ [][NextConll]_vars

-----------------------------------------------------------------------------
(* Dependency trees and their arcs, for the properties of Conll2Plot.      *)

Min(a, b) == IF a < b THEN a ELSE b
Max(a, b) == IF a > b THEN a ELSE b

TokId(toks, k) == AsUsize(toks[k].id)
TokHead(toks, k) == AsUsize(toks[k].head)
IsRootTok(toks, k) == F32Eq(toks[k].id, toks[k].head)

\* the token at position k reaches a root along its heads in at most fuel steps
RECURSIVE HeadChainReachesRoot(_, _, _)
HeadChainReachesRoot(toks, k, fuel) ==
    \/ IsRootTok(toks, k)
    \/ /\ fuel > 0
       /\ TokHead(toks, k) + 1 \in 1..Len(toks)
       /\ HeadChainReachesRoot(toks, TokHead(toks, k) + 1, fuel - 1)

\* exactly one root, every other token's head chain reaches it
IsDependencyTree(toks) ==
    /\ Cardinality({k \in 1..Len(toks) : IsRootTok(toks, k)}) = 1
    /\ \A k \in 1..Len(toks) : HeadChainReachesRoot(toks, k, Len(toks))

\* the token at position k is the token at position a or lies under it
RECURSIVE IsUnder(_, _, _, _)
IsUnder(toks, k, a, fuel) ==
    \/ k = a
    \/ /\ fuel > 0
       /\ ~IsRootTok(toks, k)
       /\ TokHead(toks, k) + 1 \in 1..Len(toks)
       /\ IsUnder(toks, TokHead(toks, k) + 1, a, fuel - 1)

\* a projective tree: every token that stands strictly between a token and its
\* head lies under that head (so no arc crosses another, and none passes over
\* the root)
Projective(toks) ==
    \A k, m \in 1..Len(toks) :
        /\ ~IsRootTok(toks, k)
        /\ Min(TokId(toks, k), TokHead(toks, k)) < TokId(toks, m)
        /\ TokId(toks, m) < Max(TokId(toks, k), TokHead(toks, k))
        => IsUnder(toks, m, TokHead(toks, k) + 1, Len(toks))

\* two entries of the plot data are arcs of one height whose spans share more
\* than an endpoint
Collide(a, b) ==
    LET lo1 == Min(AsUsize(a.start), AsUsize(a.end))
        hi1 == Max(AsUsize(a.start), AsUsize(a.end))
        lo2 == Min(AsUsize(b.start), AsUsize(b.end))
        hi2 == Max(AsUsize(b.start), AsUsize(b.end))
    IN  /\ a.height # -1 /\ b.height # -1
        /\ a.height = b.height
        /\ Max(lo1, lo2) < Min(hi1, hi2)

NoCollision(d) == \A i, j \in 1..Len(d) : i # j => ~Collide(d[i], d[j])

PlotDone == component = "C2P" /\ pc = "done" /\ output.some

\* C1 as stated: after the Conll2Plot walk of any dependency tree - one root,
\* every token under it, crossing arcs allowed - no two arcs of equal height
\* have spans that overlap in more than an endpoint.
C1_AllTrees_NoCollision ==
    PlotDone /\ IsDependencyTree(tokens) => NoCollision(output.conll_plot_data)

\* C1 restricted to projective trees (one root, every token under it, every
\* token between a token and its head under that head): there no two arcs of
\* equal height have spans that overlap in more than an endpoint, so C1 fails
\* only where an arc passes over a token that is not under its head.
Projective_NoCollision ==
    PlotDone /\ IsDependencyTree(tokens) /\ Projective(tokens)
        => NoCollision(output.conll_plot_data)

\* a projective tree with an arc nested under another has been walked and its
\* arcs got different heights
Projective_NestedArcs ==
    /\ PlotDone /\ IsDependencyTree(tokens) /\ Projective(tokens)
    /\ \E i, j \in 1..Len(output.conll_plot_data) :
          /\ output.conll_plot_data[i].height >= 1
          /\ output.conll_plot_data[j].height > output.conll_plot_data[i].height

\* a 4-token sentence on which C1 fails: the arc 3 -> 0 passes over the root 1
\* and over the arc 2 -> 1, and both arcs get height 1
NonProjectiveExample == Sentence(4, <<1, 1, 1, 0>>)

-----------------------------------------------------------------------------
(* C2: the tabular round trip String2Conll -> Conll2String.                *)

IsNumeric(s) == ParseF32(s).ok

\* a line of ten tab separated fields with a numeric id and a numeric head
ValidLine(line) ==
    LET fields == Split(line, TAB)
    IN  Len(fields) = CONLL_SIZE /\ IsNumeric(fields[1]) /\ IsNumeric(fields[7])

ValidLines(ls) == ls # <<>> /\ \A k \in 1..Len(ls) : ValidLine(ls[k])

\* C2: for any valid dependency token sequence (non-empty, every line of ten
\* tab separated fields with numeric id and head), String2Conll::build followed
\* by Conll2String build and get_conll returns the same lines in the same order.
C2_TabularRoundTrip ==
    component = "C2S" /\ pc = "done" /\ ValidLines(lines)
        => output.some /\ output.conll = lines

-----------------------------------------------------------------------------
(* C5: where the number of roots is checked.                               *)

RootCount(toks) == Cardinality({k \in 1..Len(toks) : IsRootTok(toks, k)})

\* C5 as stated: parsing (String2Conll::build) succeeds iff exactly one token has
\* head == id, and two or more such tokens are rejected with "not supporting
\* more than one root".
C5_ParseRejectsRoots ==
    component = "C2P" /\ pc # "build"
        => /\ build_result.kind = "Ok" <=> RootCount(tokens) = 1
           /\ RootCount(tokens) >= 2
                 => build_result.msg = "not supporting more than one root"

\* C5, amended: String2Conll::build accepts a sequence whatever its number of
\* roots; it is the walk of Conll2Plot::build that succeeds iff exactly one
\* token has head == id, panics with "not supporting more than one root" on
\* two or more, and panics on its assertion when there is none.
C5_WalkRejectsRoots ==
    component = "C2P" /\ pc = "done"
        => /\ build_result = Ok
           /\ walk_result.kind = "Ok" <=> RootCount(tokens) = 1
           /\ RootCount(tokens) >= 2
                 => walk_result = Panic("not supporting more than one root")
           /\ RootCount(tokens) = 0 => walk_result.kind = "Panic"

\* C5 witness: a sequence with two roots went through String2Conll::build and
\* was refused by the walk
C5_Witness ==
    /\ component = "C2P" /\ pc = "done"
    /\ build_result = Ok
    /\ RootCount(tokens) >= 2
    /\ walk_result = Panic("not supporting more than one root")

-----------------------------------------------------------------------------
(* Bracketed strings, read piece by piece (pieces are separated by one     *)
(* space): an opener "(L", a single leaf "(L)..", or the word "W).." of a  *)
(* two-token chunk "(L W)..".                                              *)

IsLabel(s) == s # <<>> /\ \A k \in 1..Len(s) : s[k] \notin {"(", ")", " "}

\* the piece without its trailing closing brackets, and their number
Stem(piece) == TrimEndMatches(piece, ")")
ClosersOf(piece) == Len(piece) - Len(Stem(piece))

IsOpener(piece) ==
    ClosersOf(piece) = 0 /\ StartsWith(piece, <<"(">>) /\ IsLabel(Tail(piece))
IsSingleLeaf(piece) ==
    ClosersOf(piece) > 0 /\ StartsWith(piece, <<"(">>) /\ IsLabel(Tail(Stem(piece)))
IsWord(piece) == ClosersOf(piece) > 0 /\ IsLabel(Stem(piece))

PieceLabel(piece) == IF IsWord(piece) THEN Stem(piece) ELSE Tail(Stem(piece))

\* the number of brackets open after the first k pieces
RECURSIVE DepthAfter(_, _)
DepthAfter(pieces, k) ==
    IF k = 0 THEN 0
    ELSE DepthAfter(pieces, k - 1)
         + (IF IsWord(pieces[k]) THEN 0 ELSE 1) - ClosersOf(pieces[k])

\* a valid bracketed string: one outermost bracket that holds bracketed
\* children, every piece of a known form, a word only right after the opener
\* of its chunk, brackets balanced and the outermost closed by the last piece
ValidBracketed(s) ==
    LET pieces == Split(s, " ")
    IN  /\ Len(pieces) >= 2
        /\ IsOpener(pieces[1])
        /\ ~IsWord(pieces[2])
        /\ \A k \in 1..Len(pieces) :
              /\ IsOpener(pieces[k]) \/ IsSingleLeaf(pieces[k]) \/ IsWord(pieces[k])
              /\ IsWord(pieces[k]) => k > 1 /\ IsOpener(pieces[k - 1])
              /\ IsOpener(pieces[k]) => k < Len(pieces)
              /\ k < Len(pieces) => DepthAfter(pieces, k) > 0
        /\ DepthAfter(pieces, Len(pieces)) = 0

\* every leaf is written as its own bracketed chunk "(L)"
SingleLeafForm(s) ==
    LET pieces == Split(s, " ")
    IN  \A k \in 1..Len(pieces) : ~IsWord(pieces[k])

\* every leaf is the word of a two-token chunk "(POS WORD)"
DoubleLeafForm(s) ==
    LET pieces == Split(s, " ")
    IN  \A k \in 1..Len(pieces) : ~IsSingleLeaf(pieces[k])

\* the outermost label is the root label of String2Tree
RootIsS(s) == StartsWith(s, ROOT_DELIMITER \o <<" ">>)

GotConstituency(inverse) ==
    component = "T2S" /\ pc = "done" /\ output.some /\ output.inverse = inverse

\* C3: for any valid single-leaf bracketed string S, whatever its outermost
\* label (the example is "(36 (9 (3) (3)) (4 (2) (2)))"), String2Tree::build
\* followed by Tree2String build and get_constituency(false) returns exactly S.
C3_SingleLeafRoundTrip ==
    /\ component = "T2S" /\ pc = "done"
          /\ ValidBracketed(input) /\ SingleLeafForm(input)
          => output.some
    /\ GotConstituency(FALSE) /\ ValidBracketed(input) /\ SingleLeafForm(input)
          => output.constituency = input

-----------------------------------------------------------------------------
(* C6: the tree String2Tree builds, against the brackets of the input.     *)

\* Reading the pieces left to right with a stack of the open brackets: every
\* piece opens a node under the innermost open bracket (a word under the
\* opener of its chunk). The result lists, in the order of the input, each
\* label with the position in the list of its enclosing node (0 for the
\* outermost).
RECURSIVE Enclosing(_, _, _, _)
Enclosing(pieces, k, open, nodes) ==
    IF k > Len(pieces) THEN nodes
    ELSE LET me == Len(nodes) + 1
             node == [label |-> PieceLabel(pieces[k]),
                      parent |-> IF open = <<>> THEN 0 ELSE open[Len(open)]]
             pushed == IF IsWord(pieces[k]) THEN open ELSE Append(open, me)
             left == Len(pushed) - ClosersOf(pieces[k])
         IN  Enclosing(pieces, k + 1,
                       SubSeq(pushed, 1, IF left < 0 THEN 0 ELSE left),
                       Append(nodes, node))

LabelsReadLeftToRight(s) == Enclosing(Split(s, " "), 1, <<>>, <<>>)

\* the pre-order of the tree t from node id: the node, then the pre-orders of
\* its children in their stored order
RECURSIVE PreOrderOf(_, _, _)
RECURSIVE PreOrderOfAll(_, _, _)
PreOrderOf(t, id, fuel) ==
    IF fuel = 0 THEN <<id>>
    ELSE <<id>> \o PreOrderOfAll(t, t.children[id], fuel - 1)
PreOrderOfAll(t, ids, fuel) ==
    IF ids = <<>> THEN <<>>
    ELSE PreOrderOf(t, Head(ids), fuel) \o PreOrderOfAll(t, Tail(ids), fuel)

PreOrder(t) == IF t.root = None THEN <<>> ELSE PreOrderOf(t, t.root, Len(t.data))

IndexIn(seq, x) == IF \E k \in 1..Len(seq) : seq[k] = x
                   THEN CHOOSE k \in 1..Len(seq) : seq[k] = x ELSE 0

\* the tree in pre-order: each label with the pre-order position of its parent
TreeInPreOrder(t) ==
    LET order == PreOrder(t)
    IN  [k \in 1..Len(order) |->
            [label |-> t.data[order[k]],
             parent |-> IF t.parent[order[k]] = None THEN 0
                        ELSE IndexIn(order, t.parent[order[k]])]]

-----------------------------------------------------------------------------
(* C7 - C10: the hooks WalkTree::walk calls, read off the trace.           *)

WalkComplete == walk_result = Ok

Elements == IF component = "T2S" THEN 1..Len(tree.data) ELSE 1..Len(tokens)
RootElement == get_root_element(component).el
ChildrenOf(e) == get_children_ids(component, e).els

\* the elements of the subtree of e
RECURSIVE Under(_, _)
Under(e, fuel) ==
    {e} \cup (IF fuel = 0 THEN {}
              ELSE UNION {Under(ChildrenOf(e)[k], fuel - 1) :
                             k \in 1..Len(ChildrenOf(e))})
SubtreeOf(e) == Under(e, Cardinality(Elements))

\* the depth-first pre-order of the structure under the order of
\* get_children_ids: the first pending element, then its children, then the rest
RECURSIVE DepthFirst(_, _)
DepthFirst(pending, fuel) ==
    IF pending = <<>> \/ fuel = 0 THEN <<>>
    ELSE <<Head(pending)>>
         \o DepthFirst(ChildrenOf(Head(pending)) \o Tail(pending), fuel - 1)
DepthFirstPreOrder == DepthFirst(<<RootElement>>, Cardinality(Elements))

IsPrefix(a, b) == Len(a) <= Len(b) /\ SubSeq(b, 1, Len(a)) = a

\* the hooks called by the call walk(Some(e), ..), in order
EventsAt(e) == SelectSeq(trace, LAMBDA ev : ev.at = e)

\* the elements the walk entered (on_node or finish_trajectory), in order
EntersElement(ev) == ev.hook \in {"on_node", "finish_trajectory"}
VisitOrder ==
    LET entered == SelectSeq(trace, EntersElement)
    IN  [k \in 1..Len(entered) |-> entered[k].el]
ChildOrder ==
    LET handed == SelectSeq(trace, LAMBDA ev : ev.hook = "on_child")
    IN  [k \in 1..Len(handed) |-> handed[k].el]

\* C7: walk(None, acc) that finds a root calls init_walk(root) first and only
\* once, then walks the subtree of the root (every hook after init_walk is
\* called from the walk of an element of that subtree, the root first), and
\* post_walk_update(root) is its last hook and the only other one it calls itself.
C7_TopLevelProtocol ==
    /\ pc = "walk" \/ WalkComplete => trace # <<>>
    /\ trace # <<>> =>
          /\ trace[1] = Event("init_walk", RootElement, None)
          /\ \A k \in 2..Len(trace) : trace[k].hook # "init_walk"
          /\ Len(trace) >= 2 =>
                trace[2].at = RootElement /\ trace[2].el = RootElement
          /\ \A k \in 2..Len(trace) :
                IF trace[k].at = None
                THEN /\ trace[k] = Event("post_walk_update", RootElement, None)
                     /\ k = Len(trace)
                     /\ WalkComplete
                ELSE trace[k].at \in SubtreeOf(RootElement)
          /\ WalkComplete =>
                /\ Len(trace) >= 3
                /\ trace[Len(trace)] = Event("post_walk_update", RootElement, None)

\* C7 witness: the walk of a tree of at least four nodes has returned
C7_Witness ==
    /\ component = "T2S" /\ WalkComplete
    /\ Len(tree.data) >= 4
    /\ trace[Len(trace)] = Event("post_walk_update", RootElement, None)

\* on_child(c) and post_walk_update(c) for each child c, in order
RECURSIVE ChildEvents(_, _)
ChildEvents(e, cs) ==
    IF cs = <<>> THEN <<>>
    ELSE <<Event("on_child", Head(cs), e), Event("post_walk_update", Head(cs), e)>>
         \o ChildEvents(e, Tail(cs))

HooksOfNode(e) ==
    <<Event("on_node", e, e)>> \o ChildEvents(e, ChildrenOf(e))
    \o <<Event("finish_recursion", None, e)>>

HooksOfLeaf(e) == <<Event("finish_trajectory", e, e)>>

\* the walk of element e has returned: its parent's post_walk_update(e) is there
Returned(e) == \E k \in 1..Len(trace) : trace[k].hook = "post_walk_update" /\ trace[k].el = e

\* C8: for every element with at least one child, the walk of the element calls
\* on_node(element) once, then for each child in order on_child(child) and
\* post_walk_update(child), with the walk of the child's whole subtree between
\* the two and nowhere else, then finish_recursion once; it never calls
\* finish_trajectory for the element.
C8_InternalHookSequence ==
    trace # <<>> =>
    \A e \in Elements : ChildrenOf(e) # <<>> =>
        /\ IsPrefix(EventsAt(e), HooksOfNode(e))
        /\ Returned(e) => EventsAt(e) = HooksOfNode(e)
        /\ WalkComplete /\ e \in SubtreeOf(RootElement) => Returned(e)
        /\ \A k \in 1..Len(trace) : trace[k].hook = "finish_trajectory" => trace[k].el # e
        /\ \A c \in SubtreeOf(e) \ {e} : \A k \in 1..Len(trace) :
              trace[k].at = c =>
                  \E i \in 1..(k - 1) :
                      /\ trace[i].hook = "on_child" /\ trace[i].at = e
                      /\ c \in SubtreeOf(trace[i].el)
                      /\ \A j \in (i + 1)..k : trace[j].at # e
        /\ \A i \in 1..Len(trace) :
              trace[i].hook = "post_walk_update" /\ trace[i].at = e =>
                  /\ i > 1 /\ trace[i - 1].at \in SubtreeOf(trace[i].el)
                  /\ EventsAt(trace[i].el) # <<>>

\* C8 witness: a node with two children, the first with children of its own,
\* has been walked to its finish_recursion
C8_Witness ==
    /\ component = "T2S" /\ WalkComplete
    /\ \E e \in Elements :
          /\ Len(ChildrenOf(e)) >= 2
          /\ ChildrenOf(ChildrenOf(e)[1]) # <<>>
          /\ EventsAt(e) = HooksOfNode(e)

\* C9: for every element with no children, the walk of the element calls
\* finish_trajectory(element) once and nothing else: no on_node, no on_child, no
\* finish_recursion.
C9_LeafCase ==
    trace # <<>> =>
    \A e \in Elements : ChildrenOf(e) = <<>> =>
        /\ IsPrefix(EventsAt(e), HooksOfLeaf(e))
        /\ Returned(e) => EventsAt(e) = HooksOfLeaf(e)
        /\ WalkComplete /\ e \in SubtreeOf(RootElement) => Returned(e)
        /\ \A k \in 1..Len(trace) : trace[k].hook = "on_node" => trace[k].el # e

\* C9 witness: a leaf below the root has been walked
C9_Witness ==
    /\ component = "T2S" /\ WalkComplete
    /\ \E e \in Elements :
          /\ ChildrenOf(e) = <<>> /\ e # RootElement
          /\ EventsAt(e) = HooksOfLeaf(e)

-----------------------------------------------------------------------------
(* C11: a walk in which a call of the implementor returns Err. The walk is *)
(* that of Tree2String over the trees of the valid strings; any one call - *)
(* get_root_element, get_children_ids of an element, a hook on an element - *)
(* may be the one that fails.                                              *)

WalkCalls ==
    {"get_children_ids", "init_walk", "finish_trajectory", "on_node", "on_child",
     "post_walk_update", "finish_recursion"}

\* the number of nodes the string s names
LabelCount(s) == Len(Split(s, " "))

WalkedInputs ==
    {s \in TreeInputs : ValidBracketed(s) /\ RootIsS(s) /\ SingleLeafForm(s)}

Failures(s) ==
    {NoFailure, [hook |-> "get_root_element", el |-> None]}
    \cup {[hook |-> c, el |-> e] : c \in WalkCalls, e \in 1..LabelCount(s)}

InitFailing ==
    /\ component = "T2S"
    /\ input \in WalkedInputs
    /\ lines = <<>>
    /\ failing \in Failures(input)
    /\ InitCommon

SpecFailing == InitFailing /\ [][NextTree]_vars

\* the hook call that fails is in the trace
FailedEvent(ev) == Failed(ev.hook, Subject(ev))

\* the walk was called on the element e: e was handed to init_walk (the root)
\* or to on_child, which the recursive call follows
HandsOver(ev, e) == ev.hook \in {"init_walk", "on_child"} /\ ev.el = e

WalkFailed == pc = "done" /\ walk_result = Err(FailureMsg) /\ output = NoOutput

\* C11: once a call of the implementor has returned Err, it is the last call
\* the walk made - no hook follows it, neither of the element nor of the
\* elements enclosing it - and walk(None, ..) has returned that error to build,
\* which hands it on without an output. A failing get_root_element leaves the
\* trace empty; a failing get_children_ids(e) is the first thing the walk of e
\* does, so nothing follows the hook that handed e over.
C11_WalkFailure ==
    /\ \A k \in 1..Len(trace) :
          FailedEvent(trace[k]) => k = Len(trace) /\ WalkFailed
    /\ failing.hook = "get_children_ids" =>
          \A k \in 1..Len(trace) :
              HandsOver(trace[k], failing.el) =>
                  /\ k = Len(trace)
                  /\ pc = "walk" \/ WalkFailed
                  /\ pc = "walk" => Top.el = failing.el /\ Top.pos = "call"
    /\ failing.hook = "get_root_element" =>
          /\ trace = <<>>
          /\ pc \in {"build", "start"} \/ WalkFailed
    /\ walk_result.kind = "Err" =>
          /\ WalkFailed
          /\ failing # NoFailure
          /\ trace # <<>> =>
                FailedEvent(trace[Len(trace)])
                \/ (failing.hook = "get_children_ids"
                    /\ HandsOver(trace[Len(trace)], failing.el))
    /\ walk_result = Ok => \A k \in 1..Len(trace) : ~FailedEvent(trace[k])

\* C11 witness: post_walk_update of an element two levels below the root has
\* failed; the walks of its parent and of the root were left without their
\* finish_recursion, and the root without its post_walk_update
C11_Witness ==
    /\ WalkFailed
    /\ failing.hook = "post_walk_update"
    /\ FailedEvent(trace[Len(trace)])
    /\ Len(stack) >= 3
    /\ Len(tree.data) >= 4
    /\ \A k \in 1..Len(trace) :
          trace[k].hook = "finish_recursion" => trace[k].at \notin {stack[2].el, stack[3].el}

-----------------------------------------------------------------------------
(* C12 - C17: what String2Tree::build accepts and what it rejects.         *)

BuildReturned == component = "T2S" /\ pc # "build"
BuildRejected == build_result.kind \in {"Err", "Panic"}

Openers(s) == CountChar(s, "(")
ClosersIn(s) == CountChar(s, ")")

\* C12: String2Tree::build returns Ok only if the input holds as many opening
\* as closing brackets; an input with too few or too many closing brackets is
\* rejected with a fatal error.
C12_BalancedOnly ==
    BuildReturned /\ Openers(input) # ClosersIn(input) => BuildRejected

\* the pieces between the spaces of the input
Pieces(s) == Split(s, " ")
LastPiece(s) == Pieces(s)[Len(Pieces(s))]

\* the input ends on an opener: its last piece carries no closing bracket
EndsOnOpener(s) == s # <<>> /\ ClosersIn(LastPiece(s)) = 0

StartsWithRoot(s) == s = ROOT_DELIMITER \/ StartsWith(s, ROOT_DELIMITER \o <<" ">>)

\* C13: every input that ends on an opener chunk is rejected with a fatal
\* error - "Did not find trailing closers" when the input begins with the
\* root - and none is accepted, the root opener alone included.
C13_OpenerEndRejected ==
    BuildReturned /\ EndsOnOpener(input) =>
        /\ BuildRejected
        /\ StartsWithRoot(input) =>
              build_result = Panic("Did not find trailing closers")

\* the first chunk of the input: what stands before the first " ("
FirstChunk(s) == IF Find(s, <<" ", "(">>) = 0 THEN s
                 ELSE SubSeq(s, 1, Find(s, <<" ", "(">>) - 1)

\* C14: an input whose first chunk is exactly "()" is rejected with the error
\* "The input tree is null and not valid", and no root is inserted in the tree.
C14_NullTree ==
    BuildReturned /\ FirstChunk(input) = <<"(", ")">> =>
        /\ build_result = Err("The input tree is null and not valid")
        /\ tree.root = None /\ tree.data = <<>>
        /\ parent_node_id = None

\* C14 witness: "()" followed by another chunk has been rejected
C14_Witness ==
    /\ BuildReturned
    /\ FirstChunk(input) = <<"(", ")">> /\ Len(input) > 2
    /\ build_result = Err("The input tree is null and not valid")
    /\ tree.data = <<>>

C17_EmptyRoot ==
    BuildReturned /\ input = <<"(", "S", ")">> =>
        /\ build_result = Ok
        /\ tree.root = 1
        /\ tree.data = <<<<"S">>>>
        /\ tree.children = <<<<>>>>
        /\ tree.parent = <<None>>

\* C17 witness: "(S)" has been parsed
C17_Witness ==
    /\ BuildReturned /\ input = <<"(", "S", ")">>
    /\ build_result = Ok /\ Len(tree.data) = 1

\* the chunks of the input: what stands between the " (" delimiters
RECURSIVE ChunksOf(_)
ChunksOf(s) ==
    IF Find(s, <<" ", "(">>) = 0 THEN <<s>>
    ELSE <<SubSeq(s, 1, Find(s, <<" ", "(">>) - 1)>>
         \o ChunksOf(SubSeq(s, Find(s, <<" ", "(">>) + 2, Len(s)))

\* the number of ancestors of the node that chunk k opens when every chunk
\* before it closed no more than it had: the root has none, a node under the
\* root one; each chunk opens a level and each closing bracket closes one
RECURSIVE AncestorsOfChunk(_, _)
AncestorsOfChunk(chunks, k) ==
    IF k = 1 THEN 0
    ELSE IF k = 2 THEN 1
    ELSE AncestorsOfChunk(chunks, k - 1) + 1 - ClosersIn(chunks[k - 1])

\* chunk k is a leaf chunk before the last chunk with more closing brackets
\* than its leaf has ancestors
Overclosed(chunks, k) ==
    /\ k \in 2..(Len(chunks) - 1)
    /\ ClosersIn(chunks[k]) > AncestorsOfChunk(chunks, k)

FirstOverclosed(chunks, k) ==
    Overclosed(chunks, k) /\ \A j \in 2..(k - 1) : ~Overclosed(chunks, j)

\* the nodes the first k chunks name: one per chunk, two for "POS WORD"
RECURSIVE NodesNamed(_, _)
NodesNamed(chunks, k) ==
    IF k = 0 THEN 0
    ELSE NodesNamed(chunks, k - 1)
         + (IF Find(chunks[k], <<" ">>) = 0 THEN 1 ELSE 2)

\* C16: when a leaf chunk that is not the last chunk carries k closing brackets
\* and its leaf has fewer than k ancestors in the tree built so far, build
\* returns Err("inconsistent number of closers and ancestors for node id")
\* and nothing of the input after that chunk is read: the tree holds the
\* nodes of the chunks up to it and no other.
C16_InconsistentClosers ==
    BuildReturned /\ FirstChunk(input) \in {ROOT_DELIMITER, EMPTY_TREE} =>
        \A k \in 2..Len(ChunksOf(input)) :
            FirstOverclosed(ChunksOf(input), k) =>
                /\ build_result =
                      Err("inconsistent number of closers and ancestors for node id")
                /\ Len(tree.data) = NodesNamed(ChunksOf(input), k)
                /\ pc = "done"
                /\ Len(ChunksOf(rest)) = Len(ChunksOf(input)) - k + 1

\* C16 witness: the third of four chunks closed more levels than were open,
\* and the fourth was not read
C16_Witness ==
    /\ BuildReturned /\ StartsWithRoot(input)
    /\ Len(ChunksOf(input)) = 4
    /\ FirstOverclosed(ChunksOf(input), 3)
    /\ build_result = Err("inconsistent number of closers and ancestors for node id")
    /\ Len(tree.data) = NodesNamed(ChunksOf(input), 3)

-----------------------------------------------------------------------------
(* SubChildren::get_sub_children (sub_tree_children.rs), as Tree2Plot::new *)
(* and the tests call it on the tree String2Tree built.                    *)

\* Tree::traverse_post_order_ids(id): the post-orders of the children in their
\* stored order, then the node
RECURSIVE PostOrderOf(_, _)
RECURSIVE PostOrderOfAll(_, _)
PostOrderOf(t, id) == PostOrderOfAll(t, t.children[id]) \o <<id>>
PostOrderOfAll(t, ids) ==
    IF ids = <<>> THEN <<>>
    ELSE PostOrderOf(t, Head(ids)) \o PostOrderOfAll(t, Tail(ids))

\* SubChildren::is_leaf
is_leaf(t, node_id) == ChildrenIds(t, node_id) = <<>>

\* HashMap::insert
MapInsert(map, k, v) ==
    [x \in (DOMAIN map) \cup {k} |-> IF x = k THEN v ELSE map[x]]

\* the loop over the children of node_id: each child's count is added to the
\* count of node_id
RECURSIVE AddChildren(_, _, _)
AddChildren(map, node_id, vec) ==
    IF vec = <<>> THEN map
    ELSE AddChildren([map EXCEPT ![node_id] = @ + map[Head(vec)]], node_id, Tail(vec))

\* the loop over the post-order: a leaf is inserted with 1, another node with
\* account_for_node plus the counts of its children
RECURSIVE CountSubChildren(_, _, _, _)
CountSubChildren(t, post_order, account_for_node, map) ==
    IF post_order = <<>> THEN map
    ELSE LET node_id == Head(post_order)
         IN  CountSubChildren(t, Tail(post_order), account_for_node,
                 IF is_leaf(t, node_id) THEN MapInsert(map, node_id, 1)
                 ELSE AddChildren(MapInsert(map, node_id, account_for_node),
                                  node_id, ChildrenIds(t, node_id)))

\* get_sub_children with account_for_node taken from as_leaves as it is
get_sub_children_FlagNotNegated(t, as_leaves) ==
    IF t.root = None
    THEN [res |-> Panic("self tree was not initialized, no root id"), map |-> <<>>]
    ELSE [res |-> Ok,
          map |-> CountSubChildren(t, PostOrderOf(t, t.root),
                                   IF as_leaves THEN 1 ELSE 0, <<>>)]

\* SubChildren::get_sub_children(as_leaves): [res, map]
get_sub_children(t, as_leaves) ==
    IF t.root = None
    THEN [res |-> Panic("self tree was not initialized, no root id"), map |-> <<>>]
    ELSE [res |-> Ok,
          map |-> CountSubChildren(t, PostOrderOf(t, t.root),
                                   IF as_leaves THEN 0 ELSE 1, <<>>)]

\* get_sub_children on the tree that build left
SubChildrenGet ==
    /\ pc = "start"
    /\ component = "T2S"
    /\ \E as_leaves \in BOOLEAN :
          LET r == get_sub_children(tree, as_leaves)
          IN  output' = [some |-> TRUE, as_leaves |-> as_leaves,
                         res |-> r.res, node2num |-> r.map]
    /\ pc' = "done"
    /\ UnchangedButOutput

NextSubChildren == Build \/ SubChildrenGet
SpecSubChildren == InitTree /\ [][NextSubChildren]_vars

\* the nodes of the sub-tree of n: n and the nodes that have n among their
\* ancestors
SubTreeNodes(t, n) ==
    {m \in 1..Len(t.data) :
        m = n \/ \E i \in 1..Len(AncestorIds(t, m)) : AncestorIds(t, m)[i] = n}
SubTreeLeaves(t, n) == {m \in SubTreeNodes(t, n) : t.children[m] = <<>>}

GotSubChildren == component = "T2S" /\ pc = "done" /\ output.some

\* C18: for every tree (a tree with a root) and every node n,
\* get_sub_children(true) maps n to the number of leaves of the sub-tree of n
\* and get_sub_children(false) to the number of its nodes, n included; a leaf
\* maps to 1 in both modes, and every node of the tree has an entry.
C18_SubTreeCounts ==
    GotSubChildren /\ tree.root # None =>
        /\ output.res = Ok
        /\ DOMAIN output.node2num = 1..Len(tree.data)
        /\ \A n \in 1..Len(tree.data) :
              /\ output.node2num[n] =
                    IF output.as_leaves THEN Cardinality(SubTreeLeaves(tree, n))
                    ELSE Cardinality(SubTreeNodes(tree, n))
              /\ tree.children[n] = <<>> => output.node2num[n] = 1

\* C18 witness: the nodes of a tree of at least five nodes with a node of two
\* children have been counted, and the root got more nodes than leaves
C18_Witness ==
    /\ GotSubChildren /\ output.res = Ok
    /\ ~output.as_leaves
    /\ Len(tree.data) >= 5
    /\ \E n \in 1..Len(tree.data) : Len(tree.children[n]) >= 2
    /\ output.node2num[tree.root] = Len(tree.data)
    /\ Cardinality(SubTreeLeaves(tree, tree.root)) < Len(tree.data)

-----------------------------------------------------------------------------
(* C19, C20: what String2Conll::build and the Conll2Plot walk refuse.      *)

\* the text between the tabs number k - 1 and k of the line
FieldCount(line) == CountChar(line, TAB) + 1
RECURSIVE FieldOf(_, _)
FieldOf(line, k) ==
    IF k = 1
    THEN (IF Find(line, <<TAB>>) = 0 THEN line
          ELSE SubSeq(line, 1, Find(line, <<TAB>>) - 1))
    ELSE FieldOf(SubSeq(line, Find(line, <<TAB>>) + 1, Len(line)), k - 1)

\* a decimal numeral: an optional sign, digits with at most one point among
\* them, one digit at least
IsNumeral(s) ==
    LET body == IF s # <<>> /\ Head(s) \in {"+", "-"} THEN Tail(s) ELSE s
    IN  /\ \A i \in 1..Len(body) : IsDigit(body[i]) \/ body[i] = "."
        /\ CountChar(body, ".") <= 1
        /\ \E i \in 1..Len(body) : IsDigit(body[i])

\* a line String2Conll::build may accept, by C19
TenFieldLine(line) ==
    /\ FieldCount(line) = 10
    /\ IsNumeral(FieldOf(line, 1))
    /\ IsNumeral(FieldOf(line, 7))

\* String2Conll::build has just returned: to the component on Ok, unwinding on
\* a panic
ConllBuildReturned ==
    /\ component \in {"C2S", "C2P"}
    /\ pc = "start" \/ (pc = "done" /\ build_result.kind # "Ok")

\* C19: String2Conll::build accepts a line only if it splits on tab into exactly
\* 10 fields of which the 1st and the 7th parse as numbers, and it makes a token
\* of every such line it reaches; the first line of another kind makes the
\* build fail, with the tokens of the lines before it and none for that line.
C19_FieldArity ==
    ConllBuildReturned =>
        /\ build_result = Ok <=> \A k \in 1..Len(lines) : TenFieldLine(lines[k])
        /\ build_result = Ok => Len(tokens) = Len(lines)
        /\ \A k \in 1..Len(tokens) : TenFieldLine(lines[k])
        /\ \A k \in 1..Len(lines) :
              ~TenFieldLine(lines[k]) /\ (\A j \in 1..(k - 1) : TenFieldLine(lines[j]))
                  => /\ build_result.kind = "Panic"
                     /\ Len(tokens) = k - 1
                     /\ pc = "done"

\* C19 witness: a line of eleven fields after a good line has failed the build,
\* and the good line alone has a token
C19_Witness ==
    /\ ConllBuildReturned
    /\ Len(lines) = 2
    /\ TenFieldLine(lines[1])
    /\ FieldCount(lines[2]) = 11
    /\ build_result.kind = "Panic"
    /\ Len(tokens) = 1

\* C20: when a dependency sequence has several roots or none, the walk of
\* Conll2Plot::build hands the failure to its caller as a returned Err, not as a
\* panic.
C20_RootErrorsReturned ==
    component = "C2P" /\ pc = "done" /\ build_result = Ok
    /\ RootCount(tokens) # 1
        => walk_result.kind = "Err"

-----------------------------------------------------------------------------
(* C21: the reader of dependency files (config.rs, Reader for Dependency). *)

\* number of characters of the file handed to read_input
MaxFileChars == 5

\* BufRead::lines: the pieces between the line feeds, without the line feed and
\* without a carriage return before it; no line after a final line feed
RECURSIVE BufLines(_)
BufLines(text) ==
    IF text = <<>> THEN <<>>
    ELSE LET i == Find(text, <<"\n">>)
             raw == IF i = 0 THEN text ELSE SubSeq(text, 1, i - 1)
             line == IF i # 0 /\ raw # <<>> /\ raw[Len(raw)] = "\r"
                     THEN SubSeq(raw, 1, Len(raw) - 1) ELSE raw
         IN  IF i = 0 THEN <<line>>
             ELSE <<line>> \o BufLines(SubSeq(text, i + 1, Len(text)))

\* the loop of read_input from line number i (0-based) on:
\* [sequences, depencdency] after the last line
RECURSIVE ReadLoop(_, _, _, _)
ReadLoop(file_lines, i, sequences, depencdency) ==
    IF i >= Len(file_lines)
    THEN [sequences |-> sequences, depencdency |-> depencdency]
    ELSE LET line == file_lines[i + 1]
         IN  IF i = 0 /\ Trim(line) = <<>>
             THEN ReadLoop(file_lines, i + 1, sequences, depencdency)
             ELSE IF Trim(line) = <<>>
             THEN ReadLoop(file_lines, i + 1, Append(sequences, depencdency), <<>>)
             ELSE ReadLoop(file_lines, i + 1, sequences, Append(depencdency, line))

\* Reader for Dependency :: read_input on the text of the file
read_input(text) ==
    LET r == ReadLoop(BufLines(text), 0, <<>>, <<>>)
    IN  IF Len(r.depencdency) > 0 THEN Append(r.sequences, r.depencdency)
        ELSE r.sequences

\* the files: every text of line feeds, blanks and two letters
FileChars == {"a", "b", " ", "\n"}
FileTexts == SeqsUpTo(FileChars, MaxFileChars)

InitReader ==
    /\ component = "Reader"
    /\ input \in FileTexts
    /\ lines = <<>>
    /\ failing = NoFailure
    /\ InitCommon

\* Config::get_sequences reads the dependency file
ReadInput ==
    /\ pc = "build"
    /\ component = "Reader"
    /\ output' = [some |-> TRUE, sequences |-> read_input(input)]
    /\ pc' = "done"
    /\ UnchangedButOutput

NextReader == ReadInput

SpecReader == InitReader /\ [][NextReader]_vars

\* the lines of all the sentences, in order
RECURSIVE Flatten(_)
Flatten(seqs) == IF seqs = <<>> THEN <<>> ELSE Head(seqs) \o Flatten(Tail(seqs))

NonBlankLines(text) == SelectSeq(BufLines(text), LAMBDA l : Trim(l) # <<>>)

HasRead == component = "Reader" /\ pc = "done"

\* C21: the sentences read_input emits, concatenated in order, are exactly the
\* non-blank lines of the file in order, and every emitted sentence is a
\* non-empty list of lines.
C21_SentenceSplitting ==
    HasRead =>
        /\ Flatten(output.sequences) = NonBlankLines(input)
        /\ \A k \in 1..Len(output.sequences) : output.sequences[k] # <<>>

\* the part of C21 that read_input keeps: no line is lost, added or reordered
C21_LinesKept ==
    HasRead => Flatten(output.sequences) = NonBlankLines(input)

\* two line feeds after a sentence: an empty sentence between two sentences
C21_EmptySentence ==
    /\ HasRead
    /\ input = <<"a", "\n", "\n", "\n", "b">>
    /\ output.sequences = << <<<<"a">>>>, <<>>, <<<<"b">>>> >>

-----------------------------------------------------------------------------
(* C22: the draw records the Conll2Plot walk leaves in the accumulator.    *)

\* the records of the plot data whose end is the id of the token at position k
RecordsOf(d, toks, k) == {j \in 1..Len(d) : F32Eq(d[j].end, toks[k].id)}

\* one record for each token: the root's with height -1, any other with a
\* height of 1 at least
Covered(d, toks) ==
    /\ Len(d) = Len(toks)
    /\ \A k \in 1..Len(toks) :
          /\ Cardinality(RecordsOf(d, toks, k)) = 1
          /\ \A j \in RecordsOf(d, toks, k) :
                IF IsRootTok(toks, k) THEN d[j].height = -1 ELSE d[j].height >= 1

PlotEnded == component = "C2P" /\ pc = "done"

\* C22 as stated: for every token sequence with exactly one root, the Conll2Plot
\* walk ends with exactly one draw record per token, the root's with height -1
\* and every other token's with a height of 1 at least.
C22_OneRootCoverage ==
    PlotEnded /\ RootCount(tokens) = 1
        => output.some /\ Covered(output.conll_plot_data, tokens)

\* C22, amended: for every dependency tree - exactly one root, the head chain of
\* every other token reaches it, ids equal to positions - the Conll2Plot walk
\* ends with exactly one draw record per token, the root's with height -1 and
\* every other token's with a height of 1 at least.
C22_TreeCoverage ==
    PlotEnded /\ IsDependencyTree(tokens)
        => output.some /\ Covered(output.conll_plot_data, tokens)

\* C22 witness: a tree of four tokens at least has been walked, with tokens on
\* both sides of the root and an arc above another
C22_Witness ==
    /\ PlotDone /\ IsDependencyTree(tokens)
    /\ Len(tokens) >= 4
    /\ ~IsRootTok(tokens, 1) /\ ~IsRootTok(tokens, Len(tokens))
    /\ Covered(output.conll_plot_data, tokens)
    /\ \E j \in 1..Len(output.conll_plot_data) : output.conll_plot_data[j].height >= 2

\* a sequence with one root on which C22 as stated fails: tokens 1 and 2 are
\* each other's head, and the walk from the root 0 reaches neither
C22_CycleLeftOut ==
    /\ PlotDone
    /\ lines = Sentence(3, <<0, 2, 1>>)
    /\ Len(output.conll_plot_data) = 1

-----------------------------------------------------------------------------
(* C23: token ids and positions after String2Conll::build.                 *)

\* the f32 of the whole number n
F32Of(n) == ParseF32(NatToString(n)).val

\* C23: after a successful String2Conll::build the token at position i has
\* id == i for every i (positions from 0), so that no lookup tokens[id] or
\* tokens[head] of the Conll2Plot walk leaves the sequence.
C23_IndexEqualsId ==
    /\ ConllBuildReturned /\ build_result = Ok
           => \A k \in 1..Len(tokens) : F32Eq(tokens[k].id, F32Of(k - 1))
    /\ PlotEnded => walk_result # Panic("index out of bounds")

\* String2Conll::build has accepted a line whose id is 12 as the token at
\* position 0
C23_IdNotIndex ==
    /\ ConllBuildReturned /\ build_result = Ok
    /\ Len(tokens) = 1
    /\ F32Eq(tokens[1].id, F32Of(12))

-----------------------------------------------------------------------------
(* C24: the height Conll2Plot::extract assigns, and the slots it writes.   *)

SetMax(S) == CHOOSE m \in S : \A x \in S : x <= m

\* 1 + the greatest of: both slots of every index strictly between lo and hi,
\* the right-side slot of lo and the left-side slot of hi
HeightRule(walk_args, lo, hi) ==
    1 + SetMax({walk_args[k + 1][j] : k \in (lo + 1)..(hi - 1), j \in 1..2}
               \cup {walk_args[lo + 1][2], walk_args[hi + 1][1]})

LastEvent == trace[Len(trace)]

\* the step is a call of Conll2Plot::post_walk_update
PlotUpdateStep ==
    /\ component = "C2P"
    /\ Len(trace') = Len(trace) + 1
    /\ trace'[Len(trace')].hook = "post_walk_update"

\* what a call of post_walk_update on the token does to the accumulator
ExtractStep ==
    LET token == tokens[trace'[Len(trace')].el]
        wa == acc.v.walk_args
        wa2 == acc'.v.walk_args
        d2 == acc'.v.conll_plot_data
        lo == Min(AsUsize(token.id), AsUsize(token.head))
        hi == Max(AsUsize(token.id), AsUsize(token.head))
    IN  /\ d2 = Append(acc.v.conll_plot_data, d2[Len(d2)])
        /\ F32Eq(d2[Len(d2)].end, token.id)
        /\ IF F32Eq(token.id, token.head)
           THEN d2[Len(d2)].height = -1 /\ wa2 = wa
           ELSE /\ d2[Len(d2)].height = HeightRule(wa, lo, hi)
                /\ DOMAIN wa2 = DOMAIN wa
                /\ \A k \in DOMAIN wa : \A j \in 1..2 :
                      wa2[k][j] = IF (k = lo + 1 /\ j = 2) \/ (k = hi + 1 /\ j = 1)
                                  THEN d2[Len(d2)].height ELSE wa[k][j]

\* C24: extract gives the root the height -1 and changes no slot; it gives a
\* non-root token with lo = min(id, head), hi = max(id, head) the height 1 + max
\* of both slots of every index strictly between lo and hi, slot 1 of lo and
\* slot 0 of hi, writes that height into these two endpoint slots and leaves
\* every other slot as it was.
C24_HeightFormula == [][PlotUpdateStep => ExtractStep]_vars

\* C24 witness: extract has just given an arc that spans other tokens a height
\* above 1, read from a slot strictly between its ends
C24_Witness ==
    /\ component = "C2P" /\ pc = "walk"
    /\ trace # <<>> /\ LastEvent.hook = "post_walk_update"
    /\ LET token == tokens[LastEvent.el]
           d == acc.v.conll_plot_data
       IN  /\ Max(AsUsize(token.id), AsUsize(token.head))
                 - Min(AsUsize(token.id), AsUsize(token.head)) >= 2
           /\ d[Len(d)].height >= 2
           /\ acc.v.walk_args[AsUsize(token.id) + 1] \in {<<0, d[Len(d)].height>>,
                                                         <<d[Len(d)].height, 0>>}

-----------------------------------------------------------------------------
(* C25: the children Conll2Plot::get_children_ids hands to the walk.       *)

\* |id - id| of the tokens at positions e and k
Distance(toks, e, k) ==
    Max(TokId(toks, e), TokId(toks, k)) - Min(TokId(toks, e), TokId(toks, k))

\* children is the list of the tokens whose head is the id of the token at
\* position e, that token left out, each once, nearest first, tokens at the same
\* distance in sequence order
ChildrenAsClaimed(toks, e, children) ==
    /\ {children[i] : i \in 1..Len(children)}
           = {k \in 1..Len(toks) : F32Eq(toks[k].head, toks[e].id) /\ k # e}
    /\ \A i, j \in 1..Len(children) : i # j => children[i] # children[j]
    /\ \A i, j \in 1..Len(children) :
          i < j => \/ Distance(toks, e, children[i]) < Distance(toks, e, children[j])
                   \/ /\ Distance(toks, e, children[i]) = Distance(toks, e, children[j])
                      /\ children[i] < children[j]

\* the calls of walk(Some(el), ..) that have fetched their children
FetchedFrames ==
    {k \in 1..Len(stack) : stack[k].el # None /\ stack[k].pos \in {"loop", "wait"}}

-----------------------------------------------------------------------------
(* C26: the 1 + max rule against greedy smallest-free-track assignment.    *)

\* the spans of two records share more than an endpoint
Overlap(a, b) ==
    Max(Min(AsUsize(a.start), AsUsize(a.end)), Min(AsUsize(b.start), AsUsize(b.end)))
        < Min(Max(AsUsize(a.start), AsUsize(a.end)),
              Max(AsUsize(b.start), AsUsize(b.end)))

\* the tracks taken, when record j is made, by the arcs made before it whose
\* spans overlap its span
TracksTaken(d, j) ==
    {d[i].height : i \in {i \in 1..(j - 1) : d[i].height # -1 /\ Overlap(d[i], d[j])}}

\* the smallest positive track that is not taken
SmallestFreeTrack(d, j) ==
    CHOOSE h \in 1..(Len(d) + 1) :
        /\ h \notin TracksTaken(d, j)
        /\ \A g \in 1..(h - 1) : g \in TracksTaken(d, j)

Greedy(d) ==
    \A j \in 1..Len(d) : d[j].height # -1 => d[j].height = SmallestFreeTrack(d, j)

\* C26: for every well-formed dependency tree the height of each arc, in the
\* order of the walk, is the smallest positive track not used by an arc assigned
\* before it whose span overlaps its span.
C26_SmallestFreeTrack ==
    PlotDone /\ IsDependencyTree(tokens) => Greedy(output.conll_plot_data)

\* C26 on projective trees only
C26_ProjectiveGreedy ==
    PlotDone /\ IsDependencyTree(tokens) /\ Projective(tokens)
        => Greedy(output.conll_plot_data)

\* a tree on which C26 fails: the arc 0 -> 3 passes over the root 2 and takes
\* track 2 above the arc 1 -> 2; the arc 3 -> 2 then gets height 3 from the
\* slot of token 3, though only track 2 is taken over its span
C26_TrackSkipped ==
    /\ PlotDone
    /\ lines = Sentence(4, <<3, 2, 2, 2>>)
    /\ output.conll_plot_data[3].height = 3
    /\ TracksTaken(output.conll_plot_data, 3) = {2}

-----------------------------------------------------------------------------
(* C27: the Conll2Plot walk ends, whatever the heads of the tokens that    *)
(* are not under the root.                                                 *)

\* String2Conll -> Conll2Plot alone, from String2Conll::new(): the sentence is
\* handed over by the caller, as lib.rs does for each of the sequences it read
InitPlot ==
    /\ component = "C2P"
    /\ lines = <<>>
    /\ input = <<>>
    /\ failing = NoFailure
    /\ InitCommon

PlotCall ==
    /\ pc = "build"
    /\ lines = <<>>
    /\ component = "C2P"
    /\ lines' \in {l \in PlotInputs : Len(l) \in 1..(MaxFreeTokens + 1)}
    /\ UNCHANGED <<component, input, rest, tree, parent_node_id, tokens, pc,
                   build_result, walk_result, stack, trace, acc, output, failing>>

PlotBuild == lines # <<>> /\ C2Build

NextPlot == PlotCall \/ PlotBuild \/ Walk \/ C2PDone

\* the pipeline has a step to take in every state but its last
PlotEnabled == pc # "done"

\* the program is one thread that runs on to its end, so every step that can be
\* taken is taken: weak fairness of NextPlot, WF_vars(NextPlot), written out as
\* []<>~ENABLED <<NextPlot>>_vars \/ []<><<NextPlot>>_vars with PlotEnabled for
\* ENABLED <<NextPlot>>_vars
PlotFairness == []<>(~PlotEnabled) \/ []<><<NextPlot>>_vars

SpecPlotFair == InitPlot /\ [][NextPlot]_vars /\ PlotFairness

\* the number of calls of post_walk_update on the token at position e so far
UpdatesOf(e) ==
    Cardinality({k \in 1..Len(trace) :
                    trace[k].hook = "post_walk_update" /\ trace[k].el = e})

\* the tokens the walk has touched so far: as the subject of a hook or as the
\* element of a call of walk
Visited ==
    ({trace[k].el : k \in 1..Len(trace)} \cup {trace[k].at : k \in 1..Len(trace)}
        \cup {stack[k].el : k \in 1..Len(stack)}) \ {None}

OneRootPlot ==
    component = "C2P" /\ pc # "build" /\ build_result = Ok /\ RootCount(tokens) = 1

WalkIsSafe ==
    OneRootPlot =>
        /\ \A e \in 1..Len(tokens) : UpdatesOf(e) <= 1
        /\ \A i, j \in 1..Len(stack) : i # j => stack[i].el # stack[j].el
        /\ \A e \in Visited : HeadChainReachesRoot(tokens, e, Len(tokens))

\* C27: for every token sequence with exactly one root and ids equal to
\* positions, the Conll2Plot walk terminates, passes each token to
\* post_walk_update at most once, and never visits a token whose head chain does
\* not reach the root, even when the heads of such tokens form a cycle.
C27_WalkTerminates ==
    /\ []WalkIsSafe
    /\ (OneRootPlot /\ pc = "start") ~> (pc = "done" /\ walk_result = Ok)

\* C27 witness: the walk of a sequence with one root and two tokens that are
\* each other's head has ended, and neither of the two was visited
C27_Witness ==
    /\ OneRootPlot /\ pc = "done" /\ walk_result = Ok
    /\ \E a, b \in 1..Len(tokens) :
          /\ a # b
          /\ TokHead(tokens, a) = TokId(tokens, b)
          /\ TokHead(tokens, b) = TokId(tokens, a)
          /\ Visited \cap {a, b} = {}
    /\ Visited # {}

-----------------------------------------------------------------------------
(* C28: the brackets of the string Tree2String accumulates.                *)

HookCount(h) == Cardinality({k \in 1..Len(trace) : trace[k].hook = h})

Opened(s) == CountChar(s, "(")
Closed(s) == CountChar(s, ")")

StringWalk == component = "T2S" /\ pc \in {"walk", "walked", "done"} /\ acc.tag = "T2S"

\* C28: at every point of a Tree2String walk finish_recursion has been called at
\* most as often as on_node, and as often when the walk has returned Ok; in
\* every prefix of the accumulated string the closing brackets do not outnumber
\* the opening ones, and the final string has as many of each, one pair for
\* each node of the tree.
C28_BalancedSerialization ==
    StringWalk =>
        /\ HookCount("finish_recursion") <= HookCount("on_node")
        /\ \A n \in 0..Len(acc.v) :
              Closed(SubSeq(acc.v, 1, n)) <= Opened(SubSeq(acc.v, 1, n))
        /\ walk_result = Ok =>
              /\ HookCount("finish_recursion") = HookCount("on_node")
              /\ Closed(acc.v) = Opened(acc.v)
              /\ Opened(acc.v) = Len(tree.data)

\* The labels of the tree are written as they are, and String2Tree::build takes
\* whatever stands between " (" and the closing brackets at the end of a chunk
\* for a label.

\* number of characters of a chunk whose label may hold brackets
MaxLabelChars == 3

\* constituency strings with one chunk after the root that has brackets anywhere
\* in it, closed or followed by one more leaf
BracketChunks == SeqsUpTo({"a", "(", ")"}, MaxLabelChars) \ {<<>>}
BracketInputs ==
    {ROOT_DELIMITER \o NODE_DELIMITER \o w \o t :
        w \in BracketChunks,
        t \in {<<>>, <<")">>, NODE_DELIMITER \o <<"b", ")", ")">>}}

InitBracketLabels ==
    /\ component = "T2S"
    /\ input \in BracketInputs
    /\ lines = <<>>
    /\ failing = NoFailure
    /\ InitCommon

SpecBracketLabels == InitBracketLabels /\ [][NextTree]_vars

\* a leaf whose label holds a closing bracket has been written to the string,
\* which ends with more closing than opening brackets
C28_BracketInLabel ==
    /\ StringWalk /\ walk_result = Ok
    /\ input = <<"(", "S", " ", "(", "a", ")", "a">>
    /\ \E k \in 1..Len(tree.data) : tree.data[k] = <<"a", ")", "a">>
    /\ Closed(acc.v) > Opened(acc.v)

-----------------------------------------------------------------------------
(* Tree2Plot (tree_2_plot.rs): the layout of a tree, computed by the walk. *)
(* A position is a fraction [num, den]; the f32 arithmetic of the code     *)
(* rounds the x positions, the fractions here do not. The y positions are  *)
(* small whole numbers, and the start point of a record is a copy of       *)
(* values computed before, both the same in f32.                           *)

RECURSIVE GCD(_, _)
GCD(a, b) == IF b = 0 THEN a ELSE GCD(b, a % b)

Frac(n, d) ==
    LET g == GCD(Abs(n), Abs(d))
        s == IF d < 0 THEN -1 ELSE 1
    IN  IF g = 0 THEN [num |-> 0, den |-> 1]
        ELSE [num |-> (s * n) \div g, den |-> (s * d) \div g]
Whole(n) == [num |-> n, den |-> 1]
FracAdd(a, b) == Frac(a.num * b.den + b.num * a.den, a.den * b.den)
FracSub(a, b) == Frac(a.num * b.den - b.num * a.den, a.den * b.den)
FracMul(a, b) == Frac(a.num * b.num, a.den * b.den)
FracDiv(a, b) == Frac(a.num * b.den, a.den * b.num)

DIM_CONST == 640
INIT_LEFT_BOUND == Whole(-5)
INIT_RIGHT_BOUND == Whole(5)

\* let mut parameters: [f32; 6] = [0.0; 6]
ZeroParameters == [k \in 1..6 |-> Whole(0)]

\* Tree2Plot::new: node_id2n_sub_children, or the panic of new
NewTree2Plot(t) ==
    LET r == get_sub_children(t, TRUE)
    IN  IF r.res.kind # "Ok"
        THEN [res |-> Panic("could not infer sub children from tree"), map |-> <<>>]
        ELSE [res |-> Ok, map |-> r.map]

node_id2n_sub_children == NewTree2Plot(tree).map

\* Tree::height: the number of levels
TreeHeight(t) ==
    IF t.root = None THEN 0
    ELSE 1 + SetMax({Len(AncestorIds(t, id)) : id \in 1..Len(t.data)})

TreePlotData(x1, y1, x2, y2, left_bound, right_bound, label) ==
    [positional_args |-> <<x1, y1, x2, y2, left_bound, right_bound>>,
     label_arg |-> label]

\* Tree2Plot::init_walk: [res, acc]
Tree2Plot_init_walk(element_id, data) ==
    [res |-> Ok,
     acc |-> [data EXCEPT !.v = Append(@,
                 TreePlotData(Whole(0), Whole(0), Whole(0), Whole(0),
                              INIT_LEFT_BOUND, INIT_RIGHT_BOUND,
                              tree.data[element_id]))]]

\* on_node that reads the first record of the accumulator
Tree2Plot_on_node_FirstRecord(element_id, parameters, data) ==
    IF data.v = <<>>
    THEN [res |-> Err("empty vec, probably on non empty node"),
          parameters |-> parameters, acc |-> data]
    ELSE [res |-> Ok,
          parameters |-> <<data.v[1].positional_args[3], data.v[1].positional_args[4],
                           data.v[1].positional_args[5], data.v[1].positional_args[6],
                           Whole(node_id2n_sub_children[element_id]), Whole(0)>>,
          acc |-> data]

\* Tree2Plot::on_node: [res, parameters, acc]
Tree2Plot_on_node(element_id, parameters, data) ==
    IF data.v = <<>>
    THEN [res |-> Err("empty vec, probably on non empty node"),
          parameters |-> parameters, acc |-> data]
    ELSE LET walk_args == data.v[Len(data.v)]
             p4 == <<walk_args.positional_args[3], walk_args.positional_args[4],
                     walk_args.positional_args[5], walk_args.positional_args[6]>>
         IN  IF element_id \notin DOMAIN node_id2n_sub_children
             THEN [res |-> Err("didn't find node id in mapping to sub children"),
                   parameters |-> p4 \o SubSeq(parameters, 5, 6), acc |-> data]
             ELSE [res |-> Ok,
                   parameters |-> p4 \o <<Whole(node_id2n_sub_children[element_id]),
                                          Whole(0)>>,
                   acc |-> data]

\* Tree2Plot::on_child: [res, parameters, acc]
Tree2Plot_on_child(child_element_id, parameters, data) ==
    LET x2 == parameters[1]
        y2 == parameters[2]
        left_bound == parameters[3]
        right_bound == parameters[4]
        n_leaves == parameters[5]
        space_allocated == parameters[6]
        c_leaves == Whole(node_id2n_sub_children[child_element_id])
        allocation == FracMul(FracSub(right_bound, left_bound),
                              FracDiv(c_leaves, n_leaves))
        new_left_bound == FracAdd(left_bound, space_allocated)
        new_right_bound == FracAdd(FracAdd(left_bound, space_allocated), allocation)
        new_x2 == FracDiv(FracAdd(new_left_bound, new_right_bound), Whole(2))
        new_y2 == FracAdd(y2, Whole(1))
    IN  [res |-> Ok,
         parameters |-> [parameters EXCEPT ![6] = FracAdd(space_allocated, allocation)],
         acc |-> [data EXCEPT !.v = Append(@,
                     TreePlotData(x2, y2, new_x2, new_y2, new_left_bound,
                                  new_right_bound, tree.data[child_element_id]))]]

(* WalkTree::walk as Tree2Plot runs it. A frame of stack is a call of      *)
(* walk(Some(el), ..) as above, with the parameters array of the call.     *)

PlotFrame(el, children, idx, pos, parameters) ==
    [el |-> el, children |-> children, idx |-> idx, pos |-> pos,
     parameters |-> parameters]

\* a hook of Tree2Plot was called as event ev and returned h: on Ok the walk
\* goes on with the stack stk at pipeline position nextpc, otherwise `?` returns
\* the error
PlotHooked(h, ev, stk, nextpc) ==
    /\ trace' = Append(trace, ev)
    /\ acc' = h.acc
    /\ IF h.res.kind = "Ok"
       THEN /\ stack' = stk
            /\ pc' = nextpc
            /\ walk_result' = IF nextpc = "walked" THEN Ok ELSE walk_result
       ELSE /\ stack' = stack
            /\ pc' = "done"
            /\ walk_result' = h.res

InitTreePlot ==
    /\ component = "T2P"
    /\ input \in TreeInputs
    /\ lines = <<>>
    /\ failing = NoFailure
    /\ InitCommon

\* one call of String2Tree::build, on the way to Tree2Plot
T2PBuild ==
    /\ pc = "build"
    /\ component = "T2P"
    /\ LET r == BuildCall(rest, tree, parent_node_id)
       IN  /\ tree' = r.tree
           /\ parent_node_id' = r.parent
           /\ rest' = IF r.res.kind = "Running" THEN r.rest ELSE rest
           /\ build_result' = r.res
           /\ pc' = IF r.res.kind = "Running" THEN "build"
                    ELSE IF r.res.kind = "Ok" THEN "start" ELSE "done"
    /\ UNCHANGED <<component, input, lines, tokens, walk_result, stack, trace,
                   acc, output, failing>>

\* Tree2Plot::new and Tree2Plot::build up to the first recursive call of
\* walk(None, ..)
T2PStart ==
    /\ pc = "start"
    /\ component = "T2P"
    /\ IF NewTree2Plot(tree).res.kind # "Ok"
       THEN /\ walk_result' = NewTree2Plot(tree).res
            /\ pc' = "done"
            /\ UNCHANGED <<stack, trace, acc>>
       ELSE PlotHooked(Tree2Plot_init_walk(tree.root, [tag |-> "TPD", v |-> <<>>]),
                       Event("init_walk", tree.root, None),
                       <<PlotFrame(None, <<tree.root>>, 1, "wait", ZeroParameters),
                         PlotFrame(tree.root, <<>>, 0, "call", ZeroParameters)>>,
                       "walk")
    /\ UnchangedStructure

\* walk(Some(el), ..) from its first statement: a leaf gets finish_trajectory
\* and the call returns, a node gets on_node and the loop over its children
\* starts
T2PEnter ==
    /\ pc = "walk"
    /\ component = "T2P"
    /\ Top.pos = "call"
    /\ LET children_ids == ChildrenIds(tree, Top.el)
           r == Tree2Plot_on_node(Top.el, ZeroParameters, acc)
       IN  IF children_ids = <<>>
           THEN PlotHooked([res |-> Ok, acc |-> acc],
                           Event("finish_trajectory", Top.el, Top.el),
                           Pop(stack), "walk")
           ELSE PlotHooked(r, Event("on_node", Top.el, Top.el),
                           SetTop(stack, PlotFrame(Top.el, children_ids, 1, "loop",
                                                   r.parameters)),
                           "walk")
    /\ UnchangedStructure

\* the for loop at a child: on_child, and the recursive call starts
T2PChild ==
    /\ pc = "walk"
    /\ component = "T2P"
    /\ Top.pos = "loop"
    /\ Top.idx <= Len(Top.children)
    /\ LET child_element_id == Top.children[Top.idx]
           r == Tree2Plot_on_child(child_element_id, Top.parameters, acc)
       IN  PlotHooked(r, Event("on_child", child_element_id, Top.el),
                      Append(SetTop(stack, [Top EXCEPT !.pos = "wait",
                                                       !.parameters = r.parameters]),
                             PlotFrame(child_element_id, <<>>, 0, "call",
                                       ZeroParameters)),
                      "walk")
    /\ UnchangedStructure

\* the recursive call on a child returned Ok: post_walk_update, next child
T2PReturn ==
    /\ pc = "walk"
    /\ component = "T2P"
    /\ Top.pos = "wait"
    /\ Top.el # None
    /\ PlotHooked([res |-> Ok, acc |-> acc],
                  Event("post_walk_update", Top.children[Top.idx], Top.el),
                  SetTop(stack, [Top EXCEPT !.idx = @ + 1, !.pos = "loop"]),
                  "walk")
    /\ UnchangedStructure

\* the for loop is over: finish_recursion, and the call returns Ok
T2PFinish ==
    /\ pc = "walk"
    /\ component = "T2P"
    /\ Top.pos = "loop"
    /\ Top.idx > Len(Top.children)
    /\ PlotHooked([res |-> Ok, acc |-> acc],
                  Event("finish_recursion", None, Top.el),
                  Pop(stack), "walk")
    /\ UnchangedStructure

\* walk(None, ..) after its recursive call on the root returned Ok
T2PEnd ==
    /\ pc = "walk"
    /\ component = "T2P"
    /\ Top.pos = "wait"
    /\ Top.el = None
    /\ PlotHooked([res |-> Ok, acc |-> acc],
                  Event("post_walk_update", Top.children[1], None),
                  <<>>, "walked")
    /\ UnchangedStructure

\* Tree2Plot::build after the walk: the dimensions of the figure, and the plot
\* data handed to plot
T2PDone ==
    /\ pc = "walked"
    /\ component = "T2P"
    /\ LET tree_height == TreeHeight(tree)
           tree_length == node_id2n_sub_children[tree.root]
       IN  output' = [some |-> TRUE,
                      fig_dims |-> <<(DIM_CONST * tree_length) \div tree_height,
                                     (DIM_CONST * tree_height) \div tree_length>>,
                      plot_data_vec |-> acc.v]
    /\ pc' = "done"
    /\ UnchangedButOutput

T2PWalk == T2PStart \/ T2PEnter \/ T2PChild \/ T2PReturn \/ T2PFinish \/ T2PEnd

NextTreePlot == T2PBuild \/ T2PWalk \/ T2PDone

SpecTreePlot == InitTreePlot /\ [][NextTreePlot]_vars

-----------------------------------------------------------------------------
(* C29: the layout of Tree2Plot links every record to the record of its     *)
(* parent.                                                                  *)

\* the calls that push a record, in order: init_walk for the root, on_child
\* for every other node
RecordPushes == SelectSeq(trace, LAMBDA ev : ev.hook \in {"init_walk", "on_child"})

\* the node of the k-th record of the accumulator
RecordOwner(k) == RecordPushes[k].el

\* the position of node e among the records pushed so far
RecordAt(e) == CHOOSE k \in 1..Len(RecordPushes) : RecordPushes[k].el = e

\* a Tree2Plot walk is under way or has ended, and no hook returned an error
LayoutWalk ==
    /\ component = "T2P"
    /\ pc \in {"walk", "walked", "done"}
    /\ walk_result.kind \in {"None", "Ok"}
    /\ trace # <<>>

\* on_node(e) has just run: it read the record of e itself
OwnRecordRead ==
    (LastEvent.hook = "on_node") =>
        /\ RecordOwner(Len(acc.v)) = LastEvent.el
        /\ SubSeq(Top.parameters, 1, 4)
               = SubSeq(acc.v[Len(acc.v)].positional_args, 3, 6)

\* the k-th record starts where the record of its parent ends, one level lower
Linked(k) ==
    LET e == RecordOwner(k)
        rec == acc.v[k].positional_args
    IN  /\ rec[4] = Whole(Len(AncestorIds(tree, e)))
        /\ acc.v[k].label_arg = tree.data[e]
        /\ IF k = 1
           THEN e = tree.root
           ELSE LET up == acc.v[RecordAt(tree.parent[e])].positional_args
                IN  /\ tree.parent[e] # None
                    /\ rec[1] = up[3]
                    /\ rec[2] = up[4]

\* C29 (state part): in a Tree2Plot walk the records are one per visited node
\* in pre-order, on_node(e) finds the record of e last in the accumulator,
\* every record but the root's starts at the end point of its parent's record
\* and has its y2 equal to the depth of its node, and a walk that ended has one
\* record for every node of the tree
C29_Records ==
    LayoutWalk =>
        /\ Len(acc.v) = Len(RecordPushes)
        /\ IsPrefix([k \in 1..Len(acc.v) |-> RecordOwner(k)], PreOrder(tree))
        /\ OwnRecordRead
        /\ \A k \in 1..Len(acc.v) : Linked(k)
        /\ (pc \in {"walked", "done"}) => Len(acc.v) = Len(tree.data)

\* a step of the walk leaves the parameters of every call but the running one
\* as they are
OuterParametersKept ==
    \A k \in 1..Len(stack) :
        (k < Len(stack) /\ k <= Len(stack')) =>
            stack'[k].parameters = stack[k].parameters

\* C29: the records of a Tree2Plot walk are linked as C29_Records says, and
\* the parameters of a call of walk are private to it: the nested walks over
\* the children never alter them
C29_LayoutLinkage == [][T2PWalk => (OuterParametersKept /\ C29_Records')]_vars

\* a walk ended over a tree that has a node two levels under the root, so that
\* some record starts at the end point of a record that is not the root's
C29_Witness ==
    /\ LayoutWalk
    /\ pc = "done"
    /\ walk_result = Ok
    /\ Len(acc.v) >= 4
    /\ \E k \in 1..Len(acc.v) : acc.v[k].positional_args[4] = Whole(2)
    /\ \E k \in 1..Len(acc.v) : acc.v[k].positional_args[1] # Whole(0)
    /\ C29_Records

-----------------------------------------------------------------------------
(* C30: the slots of walk_args over a Conll2Plot walk, and the heights of   *)
(* the arcs.                                                                *)

\* sentences of up to this many lines whose first line is written twice
MaxRepeatTokens == 4

\* the sentence of n lines with the heads h: the first line twice, then the
\* lines with the ids 2 .. n-1
RepeatedLine(n, h) ==
    [k \in 1..n |-> Line(NatToString(IF k <= 2 THEN 0 ELSE k - 1), <<"w">>, <<"p">>,
                         NatToString(h[k]), <<"d">>)]

RepeatedInputs ==
    UNION {{RepeatedLine(n, h) : h \in {g \in [1..n -> 0..(n - 1)] : g[1] = g[2]}} :
              n \in 2..MaxRepeatTokens}

InitRepeated ==
    /\ component = "C2P"
    /\ lines \in RepeatedInputs
    /\ input = <<>>
    /\ failing = NoFailure
    /\ InitCommon

RepeatedBuild == component = "C2P" /\ C2Build

NextRepeated == RepeatedBuild \/ Walk \/ C2PDone

SpecRepeated == InitRepeated /\ [][NextRepeated]_vars

\* the heights of the arcs assigned so far, in the order of their assignment
ArcHeights ==
    LET arcs == SelectSeq(acc.v.conll_plot_data, LAMBDA d : d.height # -1)
    IN  [k \in 1..Len(arcs) |-> arcs[k].height]

\* the accumulator of a Conll2Plot walk exists
SlotsExist == component = "C2P" /\ acc.tag = "WD"

\* no slot is lowered by the step
SlotsGrow ==
    (SlotsExist /\ SlotsExist') =>
        \A k \in DOMAIN acc.v.walk_args : \A j \in 1..2 :
            acc'.v.walk_args[k][j] >= acc.v.walk_args[k][j]

\* the slots are not negative, the k-th arc has a height in 1..k, and no
\* height, no slot and no figure height exceeds n - 1
SlotsBounded ==
    SlotsExist =>
        /\ \A k \in DOMAIN acc.v.walk_args : \A j \in 1..2 :
              acc.v.walk_args[k][j] \in 0..(Len(tokens) - 1)
        /\ \A k \in DOMAIN ArcHeights : ArcHeights[k] \in 1..k
        /\ \A k \in DOMAIN ArcHeights : ArcHeights[k] <= Len(tokens) - 1
        /\ (pc = "done" /\ output.some) =>
              output.built_height - Y_SHIFT <= Len(tokens) - 1

\* C30: during a Conll2Plot walk over n tokens no write lowers a slot of
\* walk_args, every slot stays non-negative, the k-th arc assigned gets a
\* height between 1 and k, and no height, no slot and so no figure height
\* exceeds n - 1
C30_SlotBounds == [][SlotsGrow /\ SlotsBounded']_vars

\* the walk over a sentence of 4 tokens has given an arc the height 4
C30_HeightAboveTokens ==
    /\ SlotsExist
    /\ Len(tokens) = 4
    /\ \E k \in DOMAIN ArcHeights : ArcHeights[k] = 4

====
